---- MODULE Spec2Model ----
(***************************************************************************)
(* Verification model of the orchestrator core:                            *)
(*   - CircuitBreaker and ConnectionPool of the resilient client           *)
(*   - Workflow validation, registration and the OrchestrationEngine       *)
(*     scheduler                                                           *)
(* JavaScript runs one macrotask at a time: every action below is one      *)
(* macrotask together with the microtasks (promise continuations) it       *)
(* queues, which run before any timer or I/O callback.                     *)
(***************************************************************************)
EXTENDS Integers, Sequences, FiniteSets, TLC

\* null in a field that otherwise holds a time (lastFailureTime, nextAttempt)
NoTime == -1

\* ------------------------------------------------------------------------
\* Bounds of the model
\* ------------------------------------------------------------------------
MaxTime == 3            \* the clock runs over 0..MaxTime
MaxCalls == 3           \* breaker: execute() calls issued
MaxThreshold == 2       \* breaker: failureThreshold ranges over 1..MaxThreshold
MaxManual == 1          \* breaker: trip()/reset() calls
ResetTimeout == 2       \* breaker: options.resetTimeout, in clock ticks
MaxPoolSize == 2        \* pool: options.maxSize ranges over 1..MaxPoolSize
MaxAcquires == 4        \* pool: acquire() calls issued
MaxRegistrations == 1   \* engine: registerWorkflow() calls made
MaxExec == 2            \* engine: executions admitted
MaxAttempt == 3         \* engine: attempts of steps followed, all executions together
MaxCancel == 1          \* engine: cancelWorkflow() calls by clients
MaxRetries == 1         \* engine: retries of the retrying step
MaxWorkflowLimit == 2   \* engine: maxConcurrentWorkflows ranges over 1..MaxWorkflowLimit
MaxStepLimit == 2       \* engine: maxConcurrentSteps ranges over 1..MaxStepLimit
MaxReloads == 2         \* discovery: loadRegistry() calls after initialize()
MaxHealthRounds == 2    \* discovery: turns of the health check timer
MaxStepCalls == 2       \* client: step attempts of the engine that target the service
MaxToolCalls == 2       \* client: callTool() calls issued
MaxRequests == 2        \* stdio connection: send() calls made
MaxToolRetries == 2     \* client: options.maxRetries ranges over 0..MaxToolRetries

VARIABLES
    now,          \* Date.now()
    cb,           \* the CircuitBreaker object
    cbInflight,   \* calls admitted by execute() whose fn has not settled yet
    cbLast,       \* the last breaker event, as seen by the caller
    cbHist,       \* history: streak of consecutive failed calls, manual calls
    pool,         \* the ConnectionPool object
    poolCallers,  \* acquire() calls: caller -> what the caller has or waits for
    poolLast,     \* the last pool event, as seen by the caller
    closed,       \* the connections whose process has exited
    workflows,    \* engine.workflows: name -> Workflow
    registrations,\* history: registerWorkflow() calls made
    engLast,      \* the engine call made in the last step, and what it returned or threw
    options,      \* engine.options
    mcpClients,   \* engine.mcpClients: MCP name -> is the client healthy
    activeExecutions,  \* engine.activeExecutions: workflowId -> context
    executionHistory,  \* engine.executionHistory: workflowId -> context
    metrics,      \* engine.metrics
    created,      \* history: WorkflowContext objects constructed
    earlyStarts,  \* history: attempts begun with a dependency not COMPLETED
    registry,     \* discovery.registry: loaded, and mcps: name -> entry
    mcpCache,     \* discovery.mcpCache: name -> descriptor
    discLast,     \* the discovery event of the last step, with the events emitted
    discMetrics,  \* discovery.metrics
    health,       \* discovery: healthy of the cache entries, checks in flight
    client,       \* the MCPClient object: options and metrics
    calls,        \* callTool() calls: call -> where it stands and what it returned
    stdio         \* a stdio connection: requestId, pendingRequests and its history

cbVars == <<now, cb, cbInflight, cbLast, cbHist>>
poolVars == <<pool, poolCallers, poolLast, closed>>
runVars == <<options, mcpClients, activeExecutions, executionHistory, metrics,
            created, earlyStarts>>
engVars == <<workflows, registrations, engLast, runVars>>
discVars == <<registry, mcpCache, discLast, discMetrics, health>>
clientVars == <<client, calls>>
stdioVars == <<stdio>>
vars == <<cbVars, poolVars, engVars, discVars, clientVars, stdioVars>>
\* what the operations of one component leave alone
notBreaker == <<poolVars, engVars, discVars, clientVars, stdioVars>>
notPool == <<cbVars, engVars, discVars, clientVars, stdioVars>>
notEngine == <<cbVars, poolVars, discVars, clientVars, stdioVars>>
notDiscovery == <<cbVars, poolVars, workflows, registrations, engLast, options,
                 activeExecutions, executionHistory, metrics, created, earlyStarts,
                 clientVars, stdioVars>>
notClient == <<cbInflight, cbLast, cbHist, poolVars, engVars, discVars, stdioVars>>
notStdio == <<cbVars, poolVars, engVars, discVars, clientVars>>


\* ------------------------------------------------------------------------
\* CircuitBreaker
\* ------------------------------------------------------------------------
CLOSED == "CLOSED"
OPEN == "OPEN"
HALF_OPEN == "HALF_OPEN"

\* constructor
NewCircuitBreaker(threshold, resetTimeout) ==
    [ options |-> [failureThreshold |-> threshold, resetTimeout |-> resetTimeout],
      state |-> CLOSED,
      failures |-> 0,
      successes |-> 0,
      lastFailureTime |-> NoTime,
      nextAttempt |-> NoTime,
      metrics |-> [totalRequests |-> 0, totalFailures |-> 0,
                   totalSuccesses |-> 0, stateChanges |-> 0] ]

\* JavaScript's  t < nextAttempt : null converts to 0, and the clock is >= 0
BeforeNextAttempt(t, nextAttempt) ==
    IF nextAttempt = NoTime THEN FALSE ELSE t < nextAttempt

\* execute(): the breaker rejects the call
RejectsInverted(b, t) ==
    b.state = OPEN /\ ~BeforeNextAttempt(t, b.nextAttempt)

Rejects(b, t) ==
    b.state = OPEN /\ BeforeNextAttempt(t, b.nextAttempt)

\* execute(): the breaker as it is when fn is invoked
Admit(b) ==
    LET b1 == [b EXCEPT !.metrics.totalRequests = @ + 1]
    IN IF b1.state = OPEN
       THEN [b1 EXCEPT !.state = HALF_OPEN, !.metrics.stateChanges = @ + 1]
       ELSE b1

\* onSuccess() that forgets to clear the failure counter
OnSuccessKeepsFailures(b) ==
    LET b1 == [b EXCEPT !.successes = @ + 1, !.metrics.totalSuccesses = @ + 1]
    IN IF b1.state = HALF_OPEN
       THEN [b1 EXCEPT !.state = CLOSED, !.metrics.stateChanges = @ + 1]
       ELSE b1

\* onSuccess()
OnSuccess(b) ==
    LET b1 == [b EXCEPT !.successes = @ + 1, !.metrics.totalSuccesses = @ + 1]
    IN IF b1.state = HALF_OPEN
       THEN [b1 EXCEPT !.state = CLOSED, !.failures = 0,
                       !.metrics.stateChanges = @ + 1]
       ELSE b1

\* onFailure() with the threshold test off by one
OnFailureStrict(b, t) ==
    LET b1 == [b EXCEPT !.failures = @ + 1, !.metrics.totalFailures = @ + 1,
                        !.lastFailureTime = t]
    IN IF b1.failures > b1.options.failureThreshold
       THEN [b1 EXCEPT !.state = OPEN, !.nextAttempt = t + b1.options.resetTimeout,
                       !.metrics.stateChanges = @ + 1]
       ELSE b1

\* onFailure()
OnFailure(b, t) ==
    LET b1 == [b EXCEPT !.failures = @ + 1, !.metrics.totalFailures = @ + 1,
                        !.lastFailureTime = t]
    IN IF b1.failures >= b1.options.failureThreshold
       THEN [b1 EXCEPT !.state = OPEN, !.nextAttempt = t + b1.options.resetTimeout,
                       !.metrics.stateChanges = @ + 1]
       ELSE b1

NoEvent == [ev |-> "none", probe |-> FALSE]
NoHist == [streak |-> 0, ticked |-> FALSE, manual |-> 0]

InitBreaker ==
    /\ now = 0
    /\ \E k \in 1..MaxThreshold : cb = NewCircuitBreaker(k, ResetTimeout)
    /\ cbInflight = {}
    /\ cbLast = NoEvent
    /\ cbHist = NoHist

\* The clock advances.
Tick ==
    /\ UNCHANGED notBreaker
    /\ now < MaxTime
    /\ now' = now + 1
    /\ UNCHANGED <<cb, cbInflight, cbLast, cbHist>>

\* execute(fn): the part up to the call of fn. A rejected call throws
\* CIRCUIT_BREAKER_OPEN; an admitted call leaves fn running.
CBExecute ==
    /\ UNCHANGED notBreaker
    /\ cb.metrics.totalRequests < MaxCalls
    /\ LET id == cb.metrics.totalRequests + 1
       IN IF Rejects(cb, now)
          THEN /\ cb' = [cb EXCEPT !.metrics.totalRequests = @ + 1]
               /\ cbInflight' = cbInflight
               /\ cbLast' = [ev |-> "reject", probe |-> FALSE]
          ELSE /\ cb' = Admit(cb)
               /\ cbInflight' = cbInflight \cup {[id |-> id, probe |-> cb.state = OPEN,
                                                 was |-> cb.state]}
               /\ cbLast' = [ev |-> "admit", probe |-> cb.state = OPEN]
    /\ UNCHANGED <<now, cbHist>>

\* fn resolves: onSuccess(), the result is returned
CBCallSucceeds ==
    /\ UNCHANGED notBreaker
    /\ \E c \in cbInflight :
        /\ cb' = OnSuccess(cb)
        /\ cbInflight' = cbInflight \ {c}
        /\ cbLast' = [ev |-> "success", probe |-> c.probe]
        /\ cbHist' = [cbHist EXCEPT !.streak = 0, !.ticked = FALSE]
        /\ UNCHANGED now

\* fn rejects: onFailure(), the error is rethrown
CBCallFails ==
    /\ UNCHANGED notBreaker
    /\ \E c \in cbInflight :
        /\ cb' = OnFailure(cb, now)
        /\ cbInflight' = cbInflight \ {c}
        /\ cbLast' = [ev |-> "failure", probe |-> c.probe]
        /\ cbHist' = [cbHist EXCEPT !.streak = @ + 1]
        /\ UNCHANGED now

\* the monitoring timer of the constructor
CBMonitorTick ==
    /\ UNCHANGED notBreaker
    /\ cb' = [cb EXCEPT !.failures = 0, !.successes = 0]
    /\ cbHist' = [cbHist EXCEPT !.ticked = (cbHist.streak > 0)]
    /\ UNCHANGED <<now, cbInflight, cbLast>>

\* trip()
CBTrip ==
    /\ UNCHANGED notBreaker
    /\ cbHist.manual < MaxManual
    /\ cb' = [cb EXCEPT !.state = OPEN, !.nextAttempt = now + cb.options.resetTimeout,
                        !.metrics.stateChanges = @ + 1]
    /\ cbLast' = [ev |-> "trip", probe |-> FALSE]
    /\ cbHist' = [cbHist EXCEPT !.manual = @ + 1]
    /\ UNCHANGED <<now, cbInflight>>

\* reset()
CBReset ==
    /\ UNCHANGED notBreaker
    /\ cbHist.manual < MaxManual
    /\ cb' = [cb EXCEPT !.state = CLOSED, !.failures = 0, !.successes = 0,
                        !.lastFailureTime = NoTime, !.nextAttempt = NoTime,
                        !.metrics.stateChanges = @ + 1]
    /\ cbLast' = [ev |-> "reset", probe |-> FALSE]
    /\ cbHist' = [cbHist EXCEPT !.manual = @ + 1, !.streak = 0, !.ticked = FALSE]
    /\ UNCHANGED <<now, cbInflight>>

NextBreaker ==
    \/ Tick
    \/ CBExecute
    \/ CBCallSucceeds
    \/ CBCallFails
    \/ CBMonitorTick
    \/ CBTrip
    \/ CBReset


\* ------------------------------------------------------------------------
\* ConnectionPool
\* ------------------------------------------------------------------------
\* constructor
NewConnectionPool(maxSize) ==
    [ options |-> [maxSize |-> maxSize],
      connections |-> {},
      availableConnections |-> <<>>,
      pendingAcquires |-> <<>>,
      totalCreated |-> 0,
      totalDestroyed |-> 0 ]

InitPoolVars ==
    /\ pool = NewConnectionPool(1)
    /\ poolCallers = <<>>
    /\ poolLast = [ev |-> "none", conn |-> 0]
    /\ closed = {}

InitPool ==
    /\ \E n \in 1..MaxPoolSize : pool = NewConnectionPool(n)
    /\ poolCallers = <<>>
    /\ poolLast = [ev |-> "none", conn |-> 0]
    /\ closed = {}

SeqWithout(q, x) == SelectSeq(q, LAMBDA y : y # x)

\* acquire(): the pool may construct a connection
MayCreate(p, callers) ==
    Cardinality(p.connections) < p.options.maxSize

\* acquire(), up to its first await
PoolAcquire ==
    /\ UNCHANGED <<notPool, closed>>
    /\ Len(poolCallers) < MaxAcquires
    /\ LET c == Len(poolCallers) + 1
           n == Len(pool.availableConnections)
       IN IF n > 0
          THEN \* availableConnections.pop()
               /\ pool' = [pool EXCEPT !.availableConnections = SubSeq(@, 1, n - 1)]
               /\ poolCallers' = Append(poolCallers,
                      [at |-> "holds", conn |-> pool.availableConnections[n]])
               /\ poolLast' = [ev |-> "acquired", conn |-> pool.availableConnections[n]]
          ELSE IF MayCreate(pool, poolCallers)
          THEN \* await this.createConnection(): the factory is running
               /\ pool' = pool
               /\ poolCallers' = Append(poolCallers, [at |-> "factory", conn |-> 0])
               /\ poolLast' = [ev |-> "creating", conn |-> 0]
          ELSE \* pendingAcquires.push(acquire)
               /\ pool' = [pool EXCEPT !.pendingAcquires = Append(@, c)]
               /\ poolCallers' = Append(poolCallers, [at |-> "waits", conn |-> 0])
               /\ poolLast' = [ev |-> "queued", conn |-> 0]

\* createConnection() after the factory resolved
PoolFactoryResolves ==
    /\ UNCHANGED <<notPool, closed>>
    /\ \E c \in DOMAIN poolCallers :
        /\ poolCallers[c].at = "factory"
        /\ LET id == pool.totalCreated + 1
           IN /\ pool' = [pool EXCEPT !.totalCreated = id,
                                      !.connections = @ \cup {id}]
              /\ poolCallers' = [poolCallers EXCEPT ![c] = [at |-> "holds", conn |-> id]]
              /\ poolLast' = [ev |-> "created", conn |-> id]

\* the factory rejected: acquire() rejects
PoolFactoryRejects ==
    /\ UNCHANGED <<notPool, closed>>
    /\ \E c \in DOMAIN poolCallers :
        /\ poolCallers[c].at = "factory"
        /\ poolCallers' = [poolCallers EXCEPT ![c] = [at |-> "failed", conn |-> 0]]
        /\ poolLast' = [ev |-> "factory_error", conn |-> 0]
        /\ UNCHANGED pool

\* the waiter that queued last, and the queue without it
PopAcquire(q) == [acquire |-> q[Len(q)], rest |-> SubSeq(q, 1, Len(q) - 1)]

\* pendingAcquires.shift(): the waiter at the head, and the queue without it
ShiftAcquire(q) == [acquire |-> Head(q), rest |-> Tail(q)]

\* release(connection), by the caller that holds it
PoolRelease ==
    /\ UNCHANGED <<notPool, closed>>
    /\ \E c \in DOMAIN poolCallers :
        /\ poolCallers[c].at = "holds"
        /\ LET conn == poolCallers[c].conn
           IN IF conn \notin pool.connections
              THEN \* not from this pool (any more)
                   /\ pool' = pool
                   /\ poolCallers' = [poolCallers EXCEPT ![c] = [at |-> "done", conn |-> 0]]
                   /\ poolLast' = [ev |-> "ignored", conn |-> conn]
              ELSE IF Len(pool.pendingAcquires) > 0
              THEN \* pendingAcquires.shift(); acquire.resolve(connection)
                   LET w == ShiftAcquire(pool.pendingAcquires).acquire
                   IN /\ pool' = [pool EXCEPT !.pendingAcquires =
                                                 ShiftAcquire(@).rest]
                      /\ poolCallers' = [poolCallers EXCEPT
                             ![c] = [at |-> "done", conn |-> 0],
                             ![w] = [at |-> "holds", conn |-> conn]]
                      /\ poolLast' = [ev |-> "handed", conn |-> conn]
              ELSE /\ pool' = [pool EXCEPT !.availableConnections = Append(@, conn)]
                   /\ poolCallers' = [poolCallers EXCEPT ![c] = [at |-> "done", conn |-> 0]]
                   /\ poolLast' = [ev |-> "released", conn |-> conn]

\* the acquireTimeout timer of a queued acquire()
PoolAcquireTimeout ==
    /\ UNCHANGED <<notPool, closed>>
    /\ \E c \in DOMAIN poolCallers :
        /\ poolCallers[c].at = "waits"
        /\ pool' = [pool EXCEPT !.pendingAcquires = SeqWithout(@, c)]
        /\ poolCallers' = [poolCallers EXCEPT ![c] = [at |-> "timeout", conn |-> 0]]
        /\ poolLast' = [ev |-> "acquire_timeout", conn |-> 0]

\* destroyConnection that leaves the set of connections alone
DestroyIdleOnly(p, conn) ==
    [p EXCEPT !.availableConnections = SeqWithout(@, conn),
              !.totalDestroyed = @ + 1]

\* destroyConnection(connection)
DestroyConnection(p, conn) ==
    [p EXCEPT !.connections = @ \ {conn},
              !.availableConnections = SeqWithout(@, conn),
              !.totalDestroyed = @ + 1]

\* cleanupIdleConnections(): an idle connection is past idleTimeout
PoolCleanupIdle ==
    /\ UNCHANGED notPool
    /\ \E i \in 1..Len(pool.availableConnections) :
        /\ pool' = DestroyConnection(pool, pool.availableConnections[i])
        /\ closed' = closed \cup {pool.availableConnections[i]}
        /\ poolLast' = [ev |-> "destroyed", conn |-> pool.availableConnections[i]]
        /\ UNCHANGED poolCallers

\* destroy() from Promise.all over destroyConnection
RECURSIVE DestroyAll(_, _)
DestroyAll(p, connections) ==
    IF connections = {} THEN p
    ELSE LET conn == CHOOSE x \in connections : TRUE
         IN DestroyAll(DestroyConnection(p, conn), connections \ {conn})

\* destroy(): every connection goes through destroyConnection, which kills
\* its process; then every queued acquire() is rejected with 'Pool destroyed'.
\* connection.destroy() settles without waiting for a timer or for I/O, so
\* no other handler runs between the first and the last statement.
PoolDestroy ==
    /\ UNCHANGED notPool
    /\ pool' = [DestroyAll(pool, pool.connections) EXCEPT !.pendingAcquires = <<>>]
    /\ closed' = closed \cup pool.connections
    /\ poolCallers' = [c \in DOMAIN poolCallers |->
                         IF \E i \in DOMAIN pool.pendingAcquires :
                               pool.pendingAcquires[i] = c
                         THEN [at |-> "destroyed", conn |-> 0]
                         ELSE poolCallers[c]]
    /\ poolLast' = [ev |-> "pool_destroyed", conn |-> 0]

\* process.on('exit') of a subprocess connection: the handler emits
\* connection_closed and rejects the pending requests of the connection
ProcessExits(conn) ==
    /\ UNCHANGED <<notPool, pool, poolCallers>>
    /\ conn \in pool.connections \ closed
    /\ closed' = closed \cup {conn}
    /\ poolLast' = [ev |-> "connection_closed", conn |-> conn]

NextPool ==
    \/ PoolDestroy
    \/ \E conn \in 1..MaxAcquires : ProcessExits(conn)
    \/ PoolAcquire
    \/ PoolFactoryResolves
    \/ PoolFactoryRejects
    \/ PoolRelease
    \/ PoolAcquireTimeout
    \/ PoolCleanupIdle

\* ------------------------------------------------------------------------
\* Workflow definitions
\* ------------------------------------------------------------------------
PENDING == "PENDING"
RUNNING == "RUNNING"
COMPLETED == "COMPLETED"
FAILED == "FAILED"
SKIPPED == "SKIPPED"
CANCELLED == "CANCELLED"
COMPENSATING == "COMPENSATING"
COMPENSATED == "COMPENSATED"
NULL == "null"

\* the step names of the definitions considered, in definition order
StepNames == <<"A", "B", "C">>
NameSet == {StepNames[i] : i \in 1..Len(StepNames)}

\* the elements of a set of step names as an array, in the order of StepNames
AsArray(S) == SelectSeq(StepNames, LAMBDA n : n \in S)

\* new WorkflowStep(definition): the definition's fields and the runtime state
WorkflowStep(d) ==
    [ name |-> d.name, mcp |-> d.mcp, retries |-> d.retries,
      condition |-> d.condition, compensation |-> d.compensation,
      critical |-> d.critical, dependsOn |-> d.dependsOn,
      state |-> PENDING, result |-> NULL, error |-> NULL, attempt |-> 0 ]

\* a step definition with the constructor's defaults
StepDef(n, deps) ==
    [ name |-> n, mcp |-> "m1", retries |-> 0, condition |-> NULL,
      compensation |-> NULL, critical |-> TRUE, dependsOn |-> deps ]

\* new Workflow(definition), before validate(): defs is the array of step
\* definitions
Workflow(name, defs, strategy) ==
    [ name |-> name,
      compensationStrategy |-> strategy,
      stepOrder |-> [i \in 1..Len(defs) |-> defs[i].name],
      steps |-> [n \in {defs[i].name : i \in 1..Len(defs)} |->
                   WorkflowStep(CHOOSE d \in {defs[i] : i \in 1..Len(defs)} : d.name = n)] ]

\* validate(): hasCycle(stepName) with the sets visited and recursionStack in
\* st. res is "true", "false", or "throw" for a dependency that is no step.
RECURSIVE HasCycle(_, _, _)
RECURSIVE HasCycleDeps(_, _, _)

HasCycleDeps(w, deps, st) ==
    IF deps = <<>> THEN [st |-> st, res |-> "false"]
    ELSE IF Head(deps) \notin DOMAIN w.steps THEN [st |-> st, res |-> "throw"]
    ELSE LET r == HasCycle(w, Head(deps), st)
         IN IF r.res # "false" THEN r ELSE HasCycleDeps(w, Tail(deps), r.st)

\* hasCycle that never takes a step off recursionStack
HasCycleKeepsStack(w, stepName, st) ==
    IF stepName \in st.recursionStack THEN [st |-> st, res |-> "true"]
    ELSE IF stepName \in st.visited THEN [st |-> st, res |-> "false"]
    ELSE HasCycleDeps(w, AsArray(w.steps[stepName].dependsOn),
                      [visited |-> st.visited \cup {stepName},
                       recursionStack |-> st.recursionStack \cup {stepName}])

HasCycle(w, stepName, st) ==
    IF stepName \in st.recursionStack THEN [st |-> st, res |-> "true"]
    ELSE IF stepName \in st.visited THEN [st |-> st, res |-> "false"]
    ELSE LET r == HasCycleDeps(w, AsArray(w.steps[stepName].dependsOn),
                      [visited |-> st.visited \cup {stepName},
                       recursionStack |-> st.recursionStack \cup {stepName}])
         IN IF r.res # "false" THEN r
            ELSE [st |-> [r.st EXCEPT !.recursionStack = @ \ {stepName}],
                  res |-> "false"]

\* validate(): the loop over stepOrder; TRUE when validate() returns, FALSE
\* when it throws
RECURSIVE ValidateFrom(_, _, _)
ValidateFrom(w, order, st) ==
    IF order = <<>> THEN TRUE
    ELSE LET r == HasCycle(w, Head(order), st)
         IN IF r.res # "false" THEN FALSE ELSE ValidateFrom(w, Tail(order), r.st)

Validate(w) ==
    ValidateFrom(w, w.stepOrder, [visited |-> {}, recursionStack |-> {}])

\* the definitions registered in SpecRegister: the first n steps of StepNames,
\* each depending on any set of names of StepNames
GraphDefs ==
    UNION { { [i \in 1..n |-> StepDef(StepNames[i], deps[i])] :
                deps \in [1..n -> SUBSET NameSet] } : n \in 0..Len(StepNames) }

\* C depends on A and B, B depends on A
Diamond ==
    << StepDef("A", {}), StepDef("B", {"A"}), StepDef("C", {"A", "B"}) >>

\* new OrchestrationEngine(discoveryService, options): the maps and metrics
NewEngine(maxWorkflows, maxSteps) ==
    /\ options = [maxConcurrentWorkflows |-> maxWorkflows,
                  maxConcurrentSteps |-> maxSteps]
    /\ mcpClients = <<>>
    /\ activeExecutions = <<>>
    /\ executionHistory = <<>>
    /\ metrics = [totalWorkflows |-> 0, activeWorkflows |-> 0,
                  completedWorkflows |-> 0, failedWorkflows |-> 0,
                  cancelledWorkflows |-> 0, totalSteps |-> 0]
    /\ created = 0
    /\ earlyStarts = {}

InitRegistry ==
    /\ workflows = <<>>
    /\ registrations = 0
    /\ engLast = [op |-> "none"]
    /\ NewEngine(100, 50)

\* an engine with no workflow, or with the diamond registered
InitRegister ==
    /\ workflows \in {<<>>, "wf" :> Workflow("wf", Diamond, "reverse_order")}
    /\ registrations = 0
    /\ engLast = [op |-> "none"]
    /\ NewEngine(100, 50)

\* a workflows map that keeps the entry it already has for the name
SetWorkflowKeepsFirst(ws, name, w) == ws @@ (name :> w)

\* this.workflows.set(workflow.name, workflow)
SetWorkflow(ws, name, w) == (name :> w) @@ ws

\* registerWorkflow(definition)
RegisterWorkflow(name, defs) ==
    /\ UNCHANGED <<notEngine, runVars>>
    /\ registrations < MaxRegistrations
    /\ registrations' = registrations + 1
    /\ LET w == Workflow(name, defs, "reverse_order")
       IN IF Validate(w)
          THEN /\ workflows' = SetWorkflow(workflows, name, w)
               /\ engLast' = [op |-> "register", workflow |-> w, result |-> "ok"]
          ELSE /\ workflows' = workflows
               /\ engLast' = [op |-> "register", workflow |-> w, result |-> "error"]

RegisterAny == \E defs \in GraphDefs : RegisterWorkflow("wf", defs)

NextRegister == RegisterAny

\* ------------------------------------------------------------------------
\* Orchestration engine: executions
\* ------------------------------------------------------------------------
Reverse(s) == [i \in 1..Len(s) |-> s[Len(s) + 1 - i]]

Without(f, k) == [x \in DOMAIN f \ {k} |-> f[x]]

\* step.canExecute(context): conditions are the literals "true" and "false"
CanExecute(step, context) ==
    /\ \A dep \in step.dependsOn :
          dep \in DOMAIN context.steps /\ context.steps[dep].state = COMPLETED
    /\ step.condition # NULL => step.condition = "true"

\* workflow.getExecutableSteps(context): reads the state of the definition's
\* own step objects
GetExecutableSteps(w, context) ==
    SelectSeq(w.stepOrder,
              LAMBDA n : w.steps[n].state = PENDING /\ CanExecute(w.steps[n], context))

\* getCompensationOrder without the test of the state of the step
GetCompensationOrderAnyState(w) ==
    LET compensable == SelectSeq(w.stepOrder,
                          LAMBDA n : w.steps[n].compensation # NULL)
    IN IF w.compensationStrategy = "reverse_order" THEN Reverse(compensable)
       ELSE compensable

\* workflow.getCompensationOrder(): reads the definition's own step objects
GetCompensationOrder(w) ==
    LET completed == SelectSeq(w.stepOrder,
                        LAMBDA n : /\ w.steps[n].state = COMPLETED
                                   /\ w.steps[n].compensation # NULL)
    IN IF w.compensationStrategy = "reverse_order" THEN Reverse(completed)
       ELSE completed

\* new WorkflowContext(workflow, input): steps are copies of the definition's
\* step objects. runningSteps is the local set of runWorkflowSteps, pc the
\* place where executeWorkflowContext waits, timeout whether its timer is armed.
\* compensating holds the calls of compensateWorkflow that wait for a tool
\* call: the steps still to go through, the first one being called, and
\* whether executeWorkflowContext awaits the call. blocked is the list of
\* names in the message of the deadlock error. History of the execution:
\* completedOrder, the steps in the order they first became COMPLETED, and
\* invoked, the compensation actions called so far.
WorkflowContext(id, w) ==
    [ workflowId |-> id, workflow |-> w, steps |-> w.steps, state |-> PENDING,
      result |-> NULL, error |-> NULL, runningSteps |-> {}, pc |-> "start",
      timeout |-> FALSE, compensating |-> <<>>, blocked |-> {},
      completedOrder |-> <<>>, invoked |-> <<>> ]

\* mcpClients.get(step.mcp) exists and isHealthy()
ClientAvailable(clients, mcp) == mcp \in DOMAIN clients /\ clients[mcp]

\* executeStep whose stepContext is the step object of the definition, as
\* if the context held the objects themselves instead of copies
BeginAttemptOnDefinition(context, step) ==
    [context EXCEPT !.steps[step.name].state = RUNNING,
                    !.steps[step.name].attempt = @ + 1,
                    !.workflow.steps[step.name].state = RUNNING,
                    !.workflow.steps[step.name].attempt = @ + 1]

\* executeStep: the first statements, on stepContext = context.steps[name]
BeginAttempt(context, step) ==
    [context EXCEPT !.steps[step.name].state = RUNNING,
                    !.steps[step.name].attempt = @ + 1]

\* executeStep(context, step) up to its first await, and its catch block.
\* settled: the promise of executeStep is settled; early: an attempt began
\* while a step of dependsOn was not COMPLETED in the context.
RECURSIVE ExecuteStep(_, _, _)

OnStepError(context, step, error, clients) ==
    LET c1 == [context EXCEPT !.steps[step.name].error = error]
    IN IF c1.steps[step.name].attempt <= step.retries
       THEN ExecuteStep([c1 EXCEPT !.steps[step.name].state = PENDING], step, clients)
       ELSE [ ctx |-> [c1 EXCEPT !.steps[step.name].state =
                          IF step.critical THEN FAILED ELSE SKIPPED],
              settled |-> TRUE, early |-> FALSE ]

ExecuteStep(context, step, clients) ==
    LET early == \E d \in step.dependsOn : context.steps[d].state # COMPLETED
        c1 == BeginAttempt(context, step)
    IN IF ClientAvailable(clients, step.mcp)
       THEN [ctx |-> c1, settled |-> FALSE, early |-> early]
       ELSE LET r == OnStepError(c1, step, "MCP not available", clients)
            IN [r EXCEPT !.early = @ \/ early]

\* runWorkflowSteps: the loop over stepsToStart. r.settled and r.early are
\* the names of the steps whose executeStep settled at once, or began early.
RECURSIVE StartSteps(_, _, _)
StartSteps(r, stepsToStart, clients) ==
    IF stepsToStart = <<>> THEN r
    ELSE LET step == r.ctx.workflow.steps[Head(stepsToStart)]
             e == ExecuteStep([r.ctx EXCEPT !.runningSteps = @ \cup {step.name}],
                              step, clients)
         IN StartSteps([ ctx |-> e.ctx,
                         settled |-> r.settled \cup (IF e.settled THEN {step.name} ELSE {}),
                         early |-> r.early \cup (IF e.early THEN {step.name} ELSE {}) ],
                       Tail(stepsToStart), clients)

Min(a, b) == IF a < b THEN a ELSE b

\* compensateWorkflow(context): the loop from the step Head(order) on, up to
\* the next tool call or to the end. awaited: executeWorkflowContext waits
\* for this call of compensateWorkflow. done: the call returned.
RECURSIVE CompensateFrom(_, _, _, _)
CompensateFrom(context, order, clients, awaited) ==
    IF order = <<>>
    THEN [ctx |-> [context EXCEPT !.state = COMPENSATED], done |-> TRUE]
    ELSE LET n == Head(order)
             c1 == [context EXCEPT !.steps[n].state = COMPENSATING]
         IN IF context.workflow.steps[n].compensation = NULL
            THEN CompensateFrom(context, Tail(order), clients, awaited)
            ELSE IF context.workflow.steps[n].mcp \notin DOMAIN clients
            THEN CompensateFrom(c1, Tail(order), clients, awaited)
            ELSE [ctx |-> [c1 EXCEPT
                             !.invoked = Append(@, n),
                             !.compensating =
                                Append(@, [order |-> order, awaited |-> awaited])],
                  done |-> FALSE]

\* compensateWorkflow(context) up to its first await
CompensateWorkflow(context, clients, awaited) ==
    IF context.state = COMPENSATING THEN [ctx |-> context, done |-> TRUE]
    ELSE CompensateFrom([context EXCEPT !.state = COMPENSATING],
                        GetCompensationOrder(context.workflow), clients, awaited)

\* the test of executeWorkflowContext on the steps of the context
AllStepsCompleted(context) ==
    \A n \in DOMAIN context.steps : context.steps[n].state = COMPLETED
AllCriticalCompleted(context) ==
    \A n \in DOMAIN context.steps :
        ~context.steps[n].critical \/ context.steps[n].state = COMPLETED

\* a finally block that leaves metrics.activeWorkflows alone
MoveToHistoryKeepsCount(context, m) ==
    [ctx |-> [context EXCEPT !.pc = "done", !.timeout = FALSE],
     metrics |-> m, early |-> {}, finished |-> TRUE]

\* executeWorkflowContext: the finally block
MoveToHistory(context, m) ==
    [ctx |-> [context EXCEPT !.pc = "done", !.timeout = FALSE],
     metrics |-> [m EXCEPT !.activeWorkflows = @ - 1],
     early |-> {}, finished |-> TRUE]

\* executeWorkflowContext after runWorkflowSteps returned (thrown = NULL) or
\* threw: the outcome, the catch block and the finally block
FinishExecution(context, m, thrown, clients) ==
    LET ok == thrown = NULL /\ AllCriticalCompleted(context)
        r == IF ok
             THEN [ctx |-> [context EXCEPT !.state = COMPLETED, !.result = "result"],
                   done |-> TRUE]
             ELSE CompensateWorkflow(
                     [context EXCEPT
                        !.error = IF thrown # NULL THEN thrown
                                  ELSE "Not all critical steps completed successfully",
                        !.state = FAILED],
                     clients, TRUE)
        m1 == IF ok THEN [m EXCEPT !.completedWorkflows = @ + 1]
              ELSE [m EXCEPT !.failedWorkflows = @ + 1]
    IN IF r.done THEN MoveToHistory(r.ctx, m1)
       ELSE [ctx |-> [r.ctx EXCEPT !.pc = "compensating"], metrics |-> m1,
             early |-> {}, finished |-> FALSE]

\* runWorkflowSteps without the loop that waits for the running steps
DrainRunningNoWait(context, m, settled, clients) ==
    FinishExecution([context EXCEPT !.runningSteps = @ \ settled], m, NULL, clients)

\* runWorkflowSteps: the loop that waits for the running steps. settled are
\* the steps whose promise callbacks have not run yet.
DrainRunning(context, m, settled, clients) ==
    IF Cardinality(context.runningSteps) > 0
    THEN [ctx |-> [context EXCEPT !.pc = "drain", !.runningSteps = @ \ settled],
          metrics |-> m, early |-> {}, finished |-> FALSE]
    ELSE FinishExecution(context, m, NULL, clients)

\* the comparison that rejects an execution: activeExecutions.size against
\* options.maxConcurrentWorkflows
AtLimitStrict(size, max) == size > max
AtLimit(size, max) == size >= max

\* slots that count the limit and forget the steps in flight
SlotsIgnoringRunning(maxConcurrent, runningSteps) == maxConcurrent

\* slotsAvailable of runWorkflowSteps: runningSteps is the set of the call
\* of runWorkflowSteps for one execution
SlotsAvailable(maxConcurrent, runningSteps) ==
    maxConcurrent - Cardinality(runningSteps)

\* runWorkflowSteps from the test of its first loop up to the next sleep, or
\* up to the end of executeWorkflowContext
RunWorkflowSteps(context, m, clients, maxConcurrent) ==
    IF context.state # RUNNING THEN DrainRunning(context, m, {}, clients)
    ELSE
    LET executableSteps ==
            SelectSeq(GetExecutableSteps(context.workflow, context),
                      LAMBDA n : n \notin context.runningSteps)
        slotsAvailable == SlotsAvailable(maxConcurrent, context.runningSteps)
        stepsToStart ==
            SubSeq(executableSteps, 1, Min(Len(executableSteps), slotsAvailable))
        r == StartSteps([ctx |-> context, settled |-> {}, early |-> {}],
                        stepsToStart, clients)
        remainingSteps ==
            {n \in DOMAIN r.ctx.steps : r.ctx.steps[n].state \in {PENDING, RUNNING}}
    IN IF remainingSteps = {}
       THEN [DrainRunning(r.ctx, m, r.settled, clients) EXCEPT !.early = r.early]
       ELSE IF Cardinality(r.ctx.runningSteps) = 0 /\ Len(executableSteps) = 0
       THEN [FinishExecution([r.ctx EXCEPT !.blocked = remainingSteps], m,
                             "Workflow deadlock", clients)
               EXCEPT !.early = r.early]
       ELSE [ctx |-> [r.ctx EXCEPT !.pc = "sched", !.runningSteps = @ \ r.settled],
             metrics |-> m, early |-> r.early, finished |-> FALSE]

\* the attempts of all steps of the executions in a map, added up
RECURSIVE SumAttempts(_, _)
SumAttempts(execs, pairs) ==
    IF pairs = {} THEN 0
    ELSE LET p == CHOOSE q \in pairs : TRUE
         IN execs[p[1]].steps[p[2]].attempt + SumAttempts(execs, pairs \ {p})

TotalAttempts(execs) ==
    SumAttempts(execs, UNION {{<<id, n>> : n \in DOMAIN execs[id].steps} : id \in DOMAIN execs})

\* the executions after this step have begun no more attempts than the
\* model follows
WithinAttempts ==
    TotalAttempts(activeExecutions') + TotalAttempts(executionHistory') <= MaxAttempt

\* the maps and metrics after a part of executeWorkflowContext ran for id
Continue(id, r) ==
    /\ metrics' = r.metrics
    /\ earlyStarts' = earlyStarts \cup {<<id, n>> : n \in r.early}
    /\ IF r.finished
       THEN /\ activeExecutions' = Without(activeExecutions, id)
            /\ executionHistory' = (id :> r.ctx) @@ executionHistory
       ELSE /\ activeExecutions' = (id :> r.ctx) @@ activeExecutions
            /\ executionHistory' = executionHistory
    /\ WithinAttempts

\* executeWorkflow(workflowName): the call up to the first sleep of
\* runWorkflowSteps
ExecuteWorkflow(name) ==
    /\ UNCHANGED <<notEngine, workflows, registrations, options, mcpClients>>
    /\ IF name \notin DOMAIN workflows
       THEN /\ engLast' = [op |-> "execute", result |-> "Workflow not found",
                           id |-> created]
            /\ UNCHANGED <<activeExecutions, executionHistory, metrics, created,
                           earlyStarts>>
       ELSE IF AtLimit(Cardinality(DOMAIN activeExecutions),
                       options.maxConcurrentWorkflows)
       THEN /\ engLast' = [op |-> "execute",
                           result |-> "Maximum concurrent workflows reached",
                           id |-> created]
            /\ UNCHANGED <<activeExecutions, executionHistory, metrics, created,
                           earlyStarts>>
       ELSE /\ created < MaxExec
            /\ created' = created + 1
            /\ engLast' = [op |-> "execute", result |-> "started",
                           id |-> created + 1]
            /\ LET context == WorkflowContext(created + 1, workflows[name])
                   m == [metrics EXCEPT !.totalWorkflows = @ + 1,
                                        !.activeWorkflows = @ + 1]
               IN Continue(created + 1,
                     RunWorkflowSteps([context EXCEPT !.state = RUNNING,
                                                      !.timeout = TRUE],
                                      m, mcpClients, options.maxConcurrentSteps))

\* a sleep(100) of runWorkflowSteps ends
SchedulerWake(id) ==
    /\ UNCHANGED <<notEngine, workflows, registrations, options, mcpClients, created>>
    /\ id \in DOMAIN activeExecutions
    /\ activeExecutions[id].pc \in {"sched", "drain"}
    /\ engLast' = [op |-> "none"]
    /\ Continue(id,
          IF activeExecutions[id].pc = "sched"
          THEN RunWorkflowSteps(activeExecutions[id], metrics, mcpClients,
                                options.maxConcurrentSteps)
          ELSE DrainRunning(activeExecutions[id], metrics, {}, mcpClients))

\* s without its element at index p
RemoveAt(s, p) == [i \in 1..(Len(s) - 1) |-> IF i < p THEN s[i] ELSE s[i + 1]]

\* the tool call of the compensation of step n resolves (ok) or rejects: the
\* rest of the loop of compensateWorkflow, and the finally block of
\* executeWorkflowContext when it awaited the compensation
CompensationReturns(id, n, ok) ==
    /\ id \in DOMAIN activeExecutions \cup DOMAIN executionHistory
    /\ LET active == id \in DOMAIN activeExecutions
           context == IF active THEN activeExecutions[id] ELSE executionHistory[id]
       IN \E p \in DOMAIN context.compensating :
             /\ Head(context.compensating[p].order) = n
             /\ LET call == context.compensating[p]
                    c1 == [context EXCEPT
                             !.compensating = RemoveAt(@, p),
                             !.steps[n].state = IF ok THEN COMPENSATED ELSE @]
                    r == CompensateFrom(c1, Tail(call.order), mcpClients, call.awaited)
                    f == MoveToHistory(r.ctx, metrics)
                IN IF active /\ r.done /\ call.awaited
                   THEN /\ activeExecutions' = Without(activeExecutions, id)
                        /\ executionHistory' = (id :> f.ctx) @@ executionHistory
                        /\ metrics' = f.metrics
                   ELSE /\ metrics' = metrics
                        /\ IF active
                           THEN /\ activeExecutions' = (id :> r.ctx) @@ activeExecutions
                                /\ executionHistory' = executionHistory
                           ELSE /\ executionHistory' = (id :> r.ctx) @@ executionHistory
                                /\ activeExecutions' = activeExecutions
    /\ earlyStarts' = earlyStarts

\* the tool call of a running step resolves (ok) or rejects: the rest of
\* executeStep, which holds the context object wherever the engine keeps it,
\* and the callback that takes the step off runningSteps
StepCallReturns(id, n, ok) ==
    /\ id \in DOMAIN activeExecutions \cup DOMAIN executionHistory
    /\ LET active == id \in DOMAIN activeExecutions
           context == IF active THEN activeExecutions[id] ELSE executionHistory[id]
           r == IF ok
                THEN [ctx |-> [context EXCEPT
                                 !.steps[n].result = "ok",
                                 !.steps[n].state = COMPLETED,
                                 !.completedOrder =
                                    IF \E i \in DOMAIN @ : @[i] = n THEN @
                                    ELSE Append(@, n)],
                      settled |-> TRUE, early |-> FALSE]
                ELSE OnStepError(context, context.workflow.steps[n], "tool error",
                                 mcpClients)
           c1 == IF r.settled THEN [r.ctx EXCEPT !.runningSteps = @ \ {n}] ELSE r.ctx
       IN /\ n \in context.runningSteps
          /\ IF active
             THEN /\ activeExecutions' = (id :> c1) @@ activeExecutions
                  /\ executionHistory' = executionHistory
             ELSE /\ executionHistory' = (id :> c1) @@ executionHistory
                  /\ activeExecutions' = activeExecutions
          /\ WithinAttempts
          /\ metrics' = IF ok THEN [metrics EXCEPT !.totalSteps = @ + 1] ELSE metrics
          /\ earlyStarts' = earlyStarts \cup (IF r.early THEN {<<id, n>>} ELSE {})

\* mcpClient.callTool settles: the call of a step, or the call of a
\* compensation action
ToolCallReturns(id, n, call, ok) ==
    /\ UNCHANGED <<notEngine, workflows, registrations, options, mcpClients, created>>
    /\ engLast' = [op |-> "none"]
    /\ IF call = "step" THEN StepCallReturns(id, n, ok)
       ELSE CompensationReturns(id, n, ok)

\* cancelWorkflow(workflowId, reason) for an active execution
Cancel(id, reason) ==
    LET c1 == [activeExecutions[id] EXCEPT
                 !.state = CANCELLED, !.error = reason,
                 !.timeout = IF reason = "timeout" THEN FALSE ELSE @]
    IN /\ metrics' = [metrics EXCEPT !.cancelledWorkflows = @ + 1]
       /\ activeExecutions' =
             (id :> CompensateWorkflow(c1, mcpClients, FALSE).ctx) @@ activeExecutions

\* cancelWorkflow(workflowId) called by a client
CancelWorkflow(id) ==
    /\ UNCHANGED <<notEngine, workflows, registrations, options, mcpClients, created,
                   executionHistory, earlyStarts>>
    /\ IF id \notin DOMAIN activeExecutions
       THEN /\ engLast' = [op |-> "cancel", id |-> id, result |-> "Workflow not found"]
            /\ UNCHANGED <<activeExecutions, metrics>>
       ELSE /\ metrics.cancelledWorkflows < MaxCancel
            /\ engLast' = [op |-> "cancel", id |-> id, result |-> "ok"]
            /\ Cancel(id, "cancelled")

\* the timer of executeWorkflowContext fires
WorkflowTimeout(id) ==
    /\ UNCHANGED <<notEngine, workflows, registrations, options, mcpClients, created,
                   executionHistory, earlyStarts>>
    /\ id \in DOMAIN activeExecutions
    /\ activeExecutions[id].timeout
    /\ engLast' = [op |-> "none"]
    /\ Cancel(id, "timeout")

\* the MCPs the discovery service reports
McpNames == {"m1"}

clientsOnly == <<notEngine, workflows, registrations, options, activeExecutions,
                 executionHistory, metrics, created, earlyStarts>>

\* addMcpClient(mcpName): a new client, its breaker CLOSED
AddMcpClient(mcp) ==
    /\ UNCHANGED clientsOnly
    /\ mcpClients' = (mcp :> TRUE) @@ mcpClients
    /\ engLast' = [op |-> "none"]

\* removeMcpClient(mcpName)
RemoveMcpClient(mcp) ==
    /\ UNCHANGED clientsOnly
    /\ mcp \in DOMAIN mcpClients
    /\ mcpClients' = Without(mcpClients, mcp)
    /\ engLast' = [op |-> "none"]

\* the circuit breaker of a client opens, or leaves OPEN: isHealthy() changes
ClientHealthChanges(mcp) ==
    /\ UNCHANGED clientsOnly
    /\ mcp \in DOMAIN mcpClients
    /\ mcpClients' = [mcpClients EXCEPT ![mcp] = ~@]
    /\ engLast' = [op |-> "none"]

ExecutionIds == 1..MaxExec

NextEngine ==
    \/ \E name \in {"wf", "other"} : ExecuteWorkflow(name)
    \/ \E id \in ExecutionIds : SchedulerWake(id)
    \/ \E id \in ExecutionIds, n \in NameSet, call \in {"step", "compensation"},
          ok \in BOOLEAN : ToolCallReturns(id, n, call, ok)
    \/ \E id \in ExecutionIds : CancelWorkflow(id)
    \/ \E id \in ExecutionIds : WorkflowTimeout(id)
    \/ \E mcp \in McpNames : AddMcpClient(mcp)
    \/ \E mcp \in McpNames : RemoveMcpClient(mcp)
    \/ \E mcp \in McpNames : ClientHealthChanges(mcp)

\* the workflows executed in SpecEngine
Chain == << StepDef("A", {}), StepDef("B", {"A"}) >>
Retrying(critical) ==
    << [StepDef("A", {}) EXCEPT !.retries = MaxRetries, !.critical = critical] >>
\* B depends on A and comes first in the definition; A has a compensation
\* action on its own MCP
Saga ==
    << StepDef("B", {"A"}), [StepDef("A", {}) EXCEPT !.compensation = "undo"] >>
\* the condition of A is false, B depends on A, C depends on nothing
Gated ==
    << [StepDef("A", {}) EXCEPT !.condition = "false"], StepDef("B", {"A"}),
       StepDef("C", {}) >>
\* Gated without the free step
Blocked ==
    << [StepDef("A", {}) EXCEPT !.condition = "false"], StepDef("B", {"A"}) >>
\* two steps that depend on nothing
Parallel == << StepDef("A", {}), StepDef("B", {}) >>
\* B is not critical, depends on A and comes first in the definition
Optional ==
    << [StepDef("B", {"A"}) EXCEPT !.critical = FALSE], StepDef("A", {}) >>
EngineDefs ==
    {Chain, Retrying(TRUE), Retrying(FALSE), <<>>, Saga, Gated, Blocked, Optional,
     Parallel}

\* the values of maxConcurrentSteps a definition is executed under: the limit
\* makes a difference when two steps of the definition can run together
StepLimits(defs) ==
    IF defs = Chain THEN 1..MaxStepLimit
    ELSE IF defs \in {Saga, Optional, Parallel} THEN {1}
    ELSE {MaxStepLimit}

\* an engine with one registered workflow; the MCP clients are added later
InitEngine ==
    /\ \E defs \in EngineDefs : workflows = "wf" :> Workflow("wf", defs, "reverse_order")
    /\ registrations = 0
    /\ engLast = [op |-> "none"]
    /\ \E maxWorkflows \in 1..MaxWorkflowLimit,
          maxSteps \in UNION {StepLimits(defs) : defs \in EngineDefs} :
          /\ \E defs \in EngineDefs :
                /\ workflows["wf"] = Workflow("wf", defs, "reverse_order")
                /\ maxSteps \in StepLimits(defs)
          /\ NewEngine(maxWorkflows, maxSteps)

\* ------------------------------------------------------------------------
\* MCPDiscoveryService
\* ------------------------------------------------------------------------
\* the MCP names of registry files and announcements, in key order
RegistryNames == <<"m1", "m2">>
RegistryNameSet == {RegistryNames[i] : i \in 1..Len(RegistryNames)}

\* an entry of registry.mcps that passes validateRegistry unchanged. source
\* is the provenance the file gives its entries.
Descriptor(name, version) ==
    [ type |-> "object", name |-> name, version |-> version,
      endpoints |-> "object", capabilities |-> "array", tools |-> "array",
      source |-> "file" ]

\* the entries a registry file may hold under the key n: well-formed ones
\* and ones with a single defect. name and version: NULL when missing,
\* "nonstring" for a truthy value that is no string. endpoints: "missing",
\* "empty" for {}, "null entry" for an object whose endpoint is null.
\* type: "object", or "string" for an entry that is no object.
FileEntries(n) ==
    LET d == Descriptor(n, "1.0.0")
    IN { d, Descriptor(n, "2.0.0"),
         [d EXCEPT !.name = NULL], [d EXCEPT !.version = NULL],
         [d EXCEPT !.name = "nonstring"], [d EXCEPT !.version = "nonstring"],
         [d EXCEPT !.endpoints = "missing"], [d EXCEPT !.endpoints = "empty"],
         [d EXCEPT !.endpoints = "null entry"],
         [d EXCEPT !.capabilities = "string"], [d EXCEPT !.tools = "missing"],
         [d EXCEPT !.type = "string"] }

\* the registry files: unreadable, no JSON, JSON without an mcps object, or
\* an mcps object with entries for some of the names
RegistryFiles ==
    { [kind |-> "unreadable"], [kind |-> "unparsable"], [kind |-> "no mcps"] }
    \cup UNION { { [kind |-> "json", mcps |-> m] :
                     m \in { f \in [S -> UNION {FileEntries(n) : n \in S}] :
                               \A n \in S : f[n] \in FileEntries(n) } } :
                 S \in SUBSET RegistryNameSet }

\* validateRegistry: the entry with a missing name and version filled in
FixedMcp(name, mcp) ==
    [mcp EXCEPT !.name = IF @ = NULL THEN name ELSE @,
                !.version = IF @ = NULL THEN "1.0.0" ELSE @]

\* validateRegistry that takes an entry without endpoints
McpThrowsAnyEndpoints(mcp) ==
    \/ mcp.type # "object"
    \/ mcp.name = "nonstring"
    \/ mcp.version = "nonstring"
    \/ mcp.capabilities # "array"
    \/ mcp.tools # "array"

\* validateRegistry: the loop throws at this entry
McpThrows(mcp) ==
    \/ mcp.type # "object"
    \/ mcp.name = "nonstring"
    \/ mcp.version = "nonstring"
    \/ mcp.endpoints \in {"missing", "empty"}
    \/ mcp.capabilities # "array"
    \/ mcp.tools # "array"

\* validateRegistry(newRegistry): thrown, or the mcps of the registry after
\* validation
ValidateRegistry(file) ==
    IF file.kind # "json" THEN [thrown |-> TRUE]
    ELSE IF \E n \in DOMAIN file.mcps : McpThrows(file.mcps[n])
    THEN [thrown |-> TRUE]
    ELSE [thrown |-> FALSE,
          mcps |-> [n \in DOMAIN file.mcps |-> FixedMcp(n, file.mcps[n])]]

\* updateMcpCache(): the loop over the entries of the registry, in key
\* order, into the cleared cache. The loop throws at an endpoint that is
\* null and leaves the cache as built so far.
RECURSIVE UpdateMcpCache(_, _, _)
UpdateMcpCache(mcps, names, cache) ==
    IF names = <<>> THEN [cache |-> cache, thrown |-> FALSE]
    ELSE IF Head(names) \notin DOMAIN mcps
    THEN UpdateMcpCache(mcps, Tail(names), cache)
    ELSE IF mcps[Head(names)].endpoints = "null entry"
    THEN [cache |-> cache, thrown |-> TRUE]
    ELSE UpdateMcpCache(mcps, Tail(names),
                        (Head(names) :> mcps[Head(names)]) @@ cache)

\* the names of the mcps_added, mcps_removed and mcps_updated events
AddedNamesAll(previousMcps, currentMcps) == currentMcps
AddedNames(previousMcps, currentMcps) == currentMcps \ previousMcps
RemovedNames(previousMcps, currentMcps) == previousMcps \ currentMcps
UpdatedNames(previousMcps, currentMcps) == currentMcps \cap previousMcps

\* the engine's listeners: addMcpClient for the added names, removeMcpClient
\* for the removed ones, updateMcpClient (remove, then add) for the updated
\* ones; a client is constructed for a name the cache holds
ClientsAfterEvents(clients, cache, added, removed, updated) ==
    LET kept == DOMAIN clients \ (removed \cup updated)
        new == (added \cup updated) \cap DOMAIN cache
    IN [n \in kept \cup new |-> IF n \in new THEN TRUE ELSE clients[n]]

NoEvents == [added |-> {}, removed |-> {}, updated |-> {}, loaded |-> FALSE]

\* healthy of cache entries just built: the field is not set
NewEntries(names) == [n \in names |-> "undefined"]

\* loadRegistry() for a registry file with this content, with the listeners
\* of the engine
LoadRegistry(file) ==
    /\ UNCHANGED notDiscovery
    /\ discMetrics.registryReloads + discMetrics.errors < MaxReloads
    /\ LET valid == ValidateRegistry(file)
           previousMcps == IF registry.loaded THEN DOMAIN registry.mcps ELSE {}
       IN IF valid.thrown
          THEN /\ UNCHANGED <<registry, mcpCache, mcpClients>>
               /\ discMetrics' = [discMetrics EXCEPT !.errors = @ + 1]
               /\ discLast' = [op |-> "load", file |-> file,
                               result |-> IF file.kind = "json" THEN "validation"
                                          ELSE file.kind,
                               events |-> NoEvents]
          ELSE LET r == UpdateMcpCache(valid.mcps, RegistryNames, <<>>)
                   added == AddedNames(previousMcps, DOMAIN valid.mcps)
                   removed == RemovedNames(previousMcps, DOMAIN valid.mcps)
                   updated == UpdatedNames(previousMcps, DOMAIN valid.mcps)
               IN /\ registry' = [loaded |-> TRUE, mcps |-> valid.mcps]
                  /\ mcpCache' = r.cache
                  /\ IF r.thrown
                     THEN /\ discMetrics' = [discMetrics EXCEPT
                                               !.registryReloads = @ + 1,
                                               !.errors = @ + 1]
                          /\ UNCHANGED mcpClients
                          /\ discLast' = [op |-> "load", file |-> file,
                                          result |-> "cache", events |-> NoEvents]
                     ELSE /\ discMetrics' = [discMetrics EXCEPT
                                               !.registryReloads = @ + 1]
                          /\ mcpClients' = ClientsAfterEvents(mcpClients, r.cache,
                                                added, removed, updated)
                          /\ discLast' = [op |-> "load", file |-> file,
                                          result |-> "ok",
                                          events |-> [added |-> added,
                                                      removed |-> removed,
                                                      updated |-> updated,
                                                      loaded |-> TRUE]]
    /\ health' = IF discLast'.result \in {"ok", "cache"}
                 THEN [health EXCEPT !.healthy = NewEntries(DOMAIN mcpCache')]
                 ELSE health

\* the descriptor an auxiliary source builds for a name it discovered
DiscoveredMcp(name, source) ==
    [ type |-> "object", name |-> name, version |-> "0.0.0",
      endpoints |-> "object", capabilities |-> "array", tools |-> "array",
      source |-> source ]

\* a multicast announcement for a name arrives
MulticastAnnouncement(name) ==
    /\ UNCHANGED <<notDiscovery, registry, discMetrics, mcpClients>>
    /\ IF name \notin DOMAIN mcpCache
       THEN /\ mcpCache' = (name :> DiscoveredMcp(name, "multicast")) @@ mcpCache
            /\ discLast' = [op |-> "discovered", name |-> name]
            /\ health' = [health EXCEPT !.healthy = (name :> "undefined") @@ @]
       ELSE /\ mcpCache' = mcpCache
            /\ discLast' = [op |-> "announced", name |-> name]
            /\ health' = health

\* a turn of the timer of startHealthChecking: performHealthCheck begins for
\* every cache entry with an enabled health check, up to its request
HealthCheckTimer ==
    /\ UNCHANGED <<notDiscovery, registry, mcpCache, discMetrics, mcpClients>>
    /\ health.rounds < MaxHealthRounds
    /\ DOMAIN mcpCache # {}
    /\ health' = [health EXCEPT !.rounds = @ + 1,
                                !.pending = @ \cup DOMAIN mcpCache]
    /\ discLast' = [op |-> "health_timer"]

\* the request of performHealthCheck(name, mcp) returns: a status in
\* 200..299 ("ok"), another status ("bad status"), or it throws
HealthCheckReturns(name, outcome) ==
    /\ UNCHANGED <<notDiscovery, registry, mcpCache, discMetrics, mcpClients>>
    /\ name \in health.pending
    /\ LET current == name \in DOMAIN mcpCache
           isHealthy == outcome = "ok"
       IN /\ health' = [health EXCEPT
                !.pending = @ \ {name},
                !.healthy = IF current
                            THEN [@ EXCEPT ![name] = IF isHealthy THEN "true"
                                                     ELSE "false"]
                            ELSE @]
          /\ discLast' = [op |-> "health", name |-> name, outcome |-> outcome,
                          mcp_unhealthy |->
                             IF outcome = "throws" THEN TRUE
                             ELSE current /\ ~isHealthy]

\* new MCPDiscoveryService(options)
InitDiscoveryVars ==
    /\ registry = [loaded |-> FALSE]
    /\ mcpCache = <<>>
    /\ discLast = [op |-> "none"]
    /\ discMetrics = [registryReloads |-> 0, errors |-> 0]
    /\ health = [healthy |-> <<>>, pending |-> {}, rounds |-> 0]

\* the service after initialize(): the registry file was loaded, environment
\* discovery has added the names of envNames the file does not hold, and the
\* engine, constructed afterwards, has no client yet
InitDiscovery ==
    \E mcps \in [{"m1"} -> {Descriptor("m1", "1.0.0")}] \cup {<<>>},
       envNames \in SUBSET RegistryNameSet :
        /\ registry = [loaded |-> TRUE, mcps |-> mcps]
        /\ mcpCache = [n \in DOMAIN mcps \cup envNames |->
                         IF n \in DOMAIN mcps THEN mcps[n]
                         ELSE DiscoveredMcp(n, "environment")]
        /\ discLast = [op |-> "none"]
        /\ discMetrics = [registryReloads |-> 0, errors |-> 0]
        /\ health = [healthy |-> NewEntries(DOMAIN mcps \cup envNames),
                     pending |-> {}, rounds |-> 0]

NextDiscovery ==
    \/ \E file \in RegistryFiles : LoadRegistry(file)
    \/ \E name \in RegistryNameSet : MulticastAnnouncement(name)

\* the registry files reloaded while health checks run: unreadable, empty,
\* or with an entry for m1
HealthFiles ==
    { [kind |-> "unreadable"], [kind |-> "json", mcps |-> <<>>],
      [kind |-> "json", mcps |-> "m1" :> Descriptor("m1", "1.0.0")] }

NextHealth ==
    \/ \E file \in HealthFiles : LoadRegistry(file)
    \/ \E name \in RegistryNameSet : MulticastAnnouncement(name)
    \/ HealthCheckTimer
    \/ \E name \in RegistryNameSet, outcome \in {"ok", "bad status", "throws"} :
          HealthCheckReturns(name, outcome)

\* ------------------------------------------------------------------------
\* MCPClient: callTool, executeWithRetry
\* ------------------------------------------------------------------------
\* the errors connection.send(message) rejects with. kind is the kind of the
\* error in the taxonomy of the design; code and message are the fields of
\* the Error object. A Remote error carries the message of the JSON-RPC error
\* of the downstream service, whatever it says.
SendErrors ==
    { [kind |-> "NetworkUnavailable", code |-> "ECONNREFUSED",
       message |-> "connect ECONNREFUSED"],
      [kind |-> "NetworkUnavailable", code |-> "ETIMEDOUT",
       message |-> "connect ETIMEDOUT"],
      [kind |-> "Http5xx", code |-> NULL, message |-> "HTTP 503: Service Unavailable"],
      [kind |-> "Http4xx", code |-> NULL, message |-> "HTTP 404: Not Found"],
      [kind |-> "Timeout", code |-> NULL, message |-> "Request timeout"],
      [kind |-> "ConnectionClosed", code |-> NULL, message |-> "Connection closed"],
      [kind |-> "Remote", code |-> NULL, message |-> "MCP Error"],
      [kind |-> "Remote", code |-> NULL, message |-> "Invalid params"],
      [kind |-> "Remote", code |-> NULL, message |-> "upstream timeout"],
      [kind |-> "Remote", code |-> NULL, message |-> "backend answered HTTP 500"] }

NoError == [kind |-> NULL, code |-> NULL, message |-> NULL]

\* the error execute() of the breaker throws for a rejected call
CircuitOpenError ==
    [kind |-> "CircuitOpen", code |-> "CIRCUIT_BREAKER_OPEN",
     message |-> "Circuit breaker is OPEN"]

\* message.includes(word), for the messages above and the words
\* isRetryableError looks for
Includes(message, word) ==
    IF word = "HTTP 5"
    THEN message \in {"HTTP 503: Service Unavailable", "backend answered HTTP 500"}
    ELSE IF word = "timeout"
    THEN message \in {"Request timeout", "upstream timeout"}
    ELSE FALSE

\* isRetryableError(error)
IsRetryableError(error) ==
    IF error.code \in {"ECONNREFUSED", "ETIMEDOUT"} THEN TRUE
    ELSE IF Includes(error.message, "HTTP 5") THEN TRUE
    ELSE IF Includes(error.message, "timeout") THEN TRUE
    ELSE FALSE

\* new MCPClient(mcpConfig, options)
InitClientVars ==
    /\ client = [options |-> [maxRetries |-> 0], metrics |-> [retries |-> 0]]
    /\ calls = <<>>

InitClient ==
    /\ \E r \in 0..MaxToolRetries :
          client = [options |-> [maxRetries |-> r], metrics |-> [retries |-> 0]]
    /\ calls = <<>>

\* callTool(toolName, parameters) up to the first send: circuitBreaker.execute
\* rejects the call, or admits it and executeWithRetry calls fn for the first
\* time. attempt is the loop variable of executeWithRetry, sent the number of
\* messages handed to the transport.
CallTool ==
    /\ UNCHANGED <<notClient, now, client>>
    /\ Len(calls) < MaxToolCalls
    /\ IF Rejects(cb, now)
       THEN /\ cb' = [cb EXCEPT !.metrics.totalRequests = @ + 1]
            /\ calls' = Append(calls, [pc |-> "done", attempt |-> 0, sent |-> 0,
                                       result |-> "error", error |-> CircuitOpenError])
       ELSE /\ cb' = Admit(cb)
            /\ calls' = Append(calls, [pc |-> "send", attempt |-> 0, sent |-> 1,
                                       result |-> NULL, error |-> NoError])

\* connection.send resolves: executeWithRetry returns, the breaker records
\* the success
SendResolves(c) ==
    /\ UNCHANGED <<notClient, now, client>>
    /\ c \in DOMAIN calls
    /\ calls[c].pc = "send"
    /\ cb' = OnSuccess(cb)
    /\ calls' = [calls EXCEPT ![c].pc = "done", ![c].result = "ok"]

\* connection.send rejects with error: the catch block of executeWithRetry.
\* The loop ends and the breaker records the failure, or the loop sleeps.
SendRejects(c, error) ==
    /\ UNCHANGED <<notClient, now>>
    /\ c \in DOMAIN calls
    /\ calls[c].pc = "send"
    /\ IF calls[c].attempt = client.options.maxRetries \/ ~IsRetryableError(error)
       THEN /\ cb' = OnFailure(cb, now)
            /\ client' = client
            /\ calls' = [calls EXCEPT ![c].pc = "done", ![c].result = "error",
                                      ![c].error = error]
       ELSE /\ cb' = cb
            /\ client' = [client EXCEPT !.metrics.retries = @ + 1]
            /\ calls' = [calls EXCEPT ![c].pc = "sleep", ![c].error = error]

\* the sleep(delay) of executeWithRetry ends: the next turn of the loop calls
\* fn again
RetryDelayEnds(c) ==
    /\ UNCHANGED <<notClient, now, client, cb>>
    /\ c \in DOMAIN calls
    /\ calls[c].pc = "sleep"
    /\ calls' = [calls EXCEPT ![c].pc = "send", ![c].attempt = @ + 1,
                              ![c].sent = @ + 1]

\* isHealthy() that takes an OPEN breaker past nextAttempt for healthy
IsHealthyWhenDue(b, t) ==
    b.state \in {CLOSED, HALF_OPEN} \/ ~Rejects(b, t)

\* isHealthy(): the breaker is CLOSED or HALF_OPEN
IsHealthy(b, t) == b.state \in {CLOSED, HALF_OPEN}

\* the step attempts of the engine so far
StepCalls == IF engLast.op = "step" THEN engLast.n ELSE 0

\* the calls of callTool that the step attempts started, and those of them
\* that have not settled
StepStarted == IF engLast.op = "step" THEN engLast.started ELSE {}

StepOutstanding == {i \in StepStarted : calls[i].pc # "done"}

\* the attempt that is under way: its callTool has not settled and its
\* timeout has not fired
StepAttemptRunning ==
    /\ engLast.op = "step"
    /\ engLast.result = "called"
    /\ calls[engLast.call].pc # "done"

\* executeStep from mcpClients.get to the call of callTool: an unhealthy
\* client throws 'MCP not healthy', otherwise callTool runs up to its first
\* send
StepAttempt ==
    IF ~IsHealthy(cb, now)
    THEN /\ UNCHANGED <<cb, calls>>
         /\ engLast' = [op |-> "step", n |-> StepCalls + 1,
                        result |-> "MCP not healthy", call |-> 0,
                        started |-> StepStarted]
    ELSE /\ Len(calls) < MaxToolCalls
         /\ engLast' = [op |-> "step", n |-> StepCalls + 1, result |-> "called",
                        call |-> Len(calls) + 1,
                        started |-> StepStarted \cup {Len(calls) + 1}]
         /\ IF Rejects(cb, now)
            THEN /\ cb' = [cb EXCEPT !.metrics.totalRequests = @ + 1]
                 /\ calls' = Append(calls,
                        [pc |-> "done", attempt |-> 0, sent |-> 0,
                         result |-> "error", error |-> CircuitOpenError])
            ELSE /\ cb' = Admit(cb)
                 /\ calls' = Append(calls,
                        [pc |-> "send", attempt |-> 0, sent |-> 1,
                         result |-> NULL, error |-> NoError])

\* executeStep for a step that targets the service: the first attempt, or
\* the retry after the attempt before it failed without a timeout
ExecuteStepCall ==
    /\ UNCHANGED <<cbInflight, cbLast, cbHist, poolVars, discVars, now, client,
                   workflows, registrations, runVars, stdioVars>>
    /\ StepCalls < MaxStepCalls
    /\ ~StepAttemptRunning
    /\ engLast.op = "step" => engLast.result # "Step timeout"
    /\ StepAttempt

\* the timer of timeoutPromise fires before callTool settles: Promise.race
\* rejects, the catch block of executeStep runs and, while attempts are left,
\* calls executeStep again
StepTimeout ==
    /\ UNCHANGED <<cbInflight, cbLast, cbHist, poolVars, discVars, now, client,
                   workflows, registrations, runVars, stdioVars>>
    /\ StepAttemptRunning
    /\ IF StepCalls < MaxStepCalls
       THEN StepAttempt
       ELSE /\ UNCHANGED <<cb, calls>>
            /\ engLast' = [engLast EXCEPT !.result = "Step timeout"]

NextClient ==
    \/ Tick
    \/ CallTool
    \/ \E c \in 1..MaxToolCalls : SendResolves(c)
    \/ \E c \in 1..MaxToolCalls, error \in SendErrors : SendRejects(c, error)
    \/ \E c \in 1..MaxToolCalls : RetryDelayEnds(c)

\* ------------------------------------------------------------------------
\* A stdio connection of the MCPClient (createStdioConnection)
\* ------------------------------------------------------------------------
\* createStdioConnection: requestId = 0 and an empty pendingRequests map;
\* handling holds the responses whose handler waits in the response
\* interceptors, settled[id] the calls of resolve and reject of request id
InitStdioVars ==
    stdio = [ requestId |-> 0, pendingRequests |-> {}, handling |-> {},
              settled |-> <<>>, exited |-> FALSE, last |-> [ev |-> "none"] ]

\* pending.resolve or pending.reject of the requests ids
Settle(settled, ids, with) ==
    [id \in DOMAIN settled |->
        IF id \in ids THEN Append(settled[id], with) ELSE settled[id]]

\* connection.send(message), the request interceptors having returned: the
\* request gets the next id, its timer is armed and it is put into
\* pendingRequests, then written to stdin
StdioSend ==
    /\ UNCHANGED notStdio
    /\ stdio.requestId < MaxRequests
    /\ LET id == stdio.requestId + 1
       IN stdio' = [stdio EXCEPT !.requestId = id,
                                 !.pendingRequests = @ \cup {id},
                                 !.settled = Append(@, <<>>),
                                 !.last = [ev |-> "send", id |-> id]]

\* the stdout reader gets a line with this id (0: a line without id), with
\* or without an error member; interceptors tells whether the response
\* interceptors make the handler wait
StdioResponseLine(id, error, interceptors) ==
    /\ UNCHANGED notStdio
    /\ IF id # 0 /\ id \in stdio.pendingRequests
       THEN LET with == IF error THEN "MCP Error" ELSE "result"
            IN IF interceptors = "none"
               THEN stdio' = [stdio EXCEPT
                        !.pendingRequests = @ \ {id},
                        !.settled = Settle(@, {id}, with),
                        !.last = [ev |-> "line", id |-> id, discarded |-> FALSE]]
               ELSE stdio' = [stdio EXCEPT
                        !.pendingRequests = @ \ {id},
                        !.handling = @ \cup {[id |-> id, with |-> with]},
                        !.last = [ev |-> "line", id |-> id, discarded |-> FALSE]]
       ELSE stdio' = [stdio EXCEPT
                        !.last = [ev |-> "line", id |-> id, discarded |-> TRUE]]

\* the response interceptors of a waiting handler return, or one of them
\* throws: the catch block of the reader logs the error
StdioInterceptorsReturn(h, outcome) ==
    /\ UNCHANGED notStdio
    /\ h \in stdio.handling
    /\ stdio' = [stdio EXCEPT
            !.handling = @ \ {h},
            !.settled = IF outcome = "ok" THEN Settle(@, {h.id}, h.with) ELSE @,
            !.last = [ev |-> "interceptors", id |-> h.id, outcome |-> outcome]]

\* the timer of request id fires
StdioTimeout(id) ==
    /\ UNCHANGED notStdio
    /\ id \in stdio.pendingRequests
    /\ stdio' = [stdio EXCEPT
            !.pendingRequests = @ \ {id},
            !.settled = Settle(@, {id}, "Request timeout"),
            !.last = [ev |-> "timeout", id |-> id]]

\* the process exits: every pending request is rejected and the map cleared
StdioExit ==
    /\ UNCHANGED notStdio
    /\ ~stdio.exited
    /\ stdio' = [stdio EXCEPT
            !.pendingRequests = {},
            !.settled = Settle(@, stdio.pendingRequests, "Connection closed"),
            !.exited = TRUE,
            !.last = [ev |-> "exit"]]

NextStdio ==
    \/ StdioSend
    \/ \E id \in 0..MaxRequests + 1, error \in BOOLEAN,
          interceptors \in {"none", "waits"} :
            StdioResponseLine(id, error, interceptors)
    \/ \E h \in [id : 1..MaxRequests, with : {"result", "MCP Error"}],
          outcome \in {"ok", "throws"} : StdioInterceptorsReturn(h, outcome)
    \/ \E id \in 1..MaxRequests : StdioTimeout(id)
    \/ StdioExit

\* ------------------------------------------------------------------------
\* Specifications
\* ------------------------------------------------------------------------
InitBreakerVars ==
    /\ now = 0
    /\ cb = NewCircuitBreaker(1, ResetTimeout)
    /\ cbInflight = {}
    /\ cbLast = NoEvent
    /\ cbHist = NoHist

InitB == InitBreaker /\ InitPoolVars /\ InitRegistry /\ InitDiscoveryVars
            /\ InitClientVars /\ InitStdioVars
InitP == InitPool /\ InitBreakerVars /\ InitRegistry /\ InitDiscoveryVars
            /\ InitClientVars /\ InitStdioVars
InitR == InitRegister /\ InitBreakerVars /\ InitPoolVars /\ InitDiscoveryVars
            /\ InitClientVars /\ InitStdioVars

SpecBreaker == InitB /\ [][NextBreaker]_vars

SpecPool == InitP /\ [][NextPool]_vars

SpecRegister == InitR /\ [][NextRegister]_vars

InitE == InitEngine /\ InitBreakerVars /\ InitPoolVars /\ InitDiscoveryVars
            /\ InitClientVars /\ InitStdioVars
SpecEngine == InitE /\ [][NextEngine]_vars

InitD == InitDiscovery /\ InitBreakerVars /\ InitPoolVars /\ InitRegistry
            /\ InitClientVars /\ InitStdioVars
SpecDiscovery == InitD /\ [][NextDiscovery]_vars

SpecHealth == InitD /\ [][NextHealth]_vars

\* an engine whose workflow 'wf' is registered again while it is executed
Cyclic == << StepDef("A", {"A"}) >>
ReplaceDefs == {Chain, Retrying(TRUE), <<>>, Cyclic}

InitReplace ==
    /\ \E defs \in {Chain, Retrying(TRUE)} :
          workflows = "wf" :> Workflow("wf", defs, "reverse_order")
    /\ registrations = 0
    /\ engLast = [op |-> "none"]
    /\ NewEngine(MaxWorkflowLimit, MaxStepLimit)

NextReplace ==
    \/ \E defs \in ReplaceDefs : RegisterWorkflow("wf", defs)
    \/ ExecuteWorkflow("wf")
    \/ \E id \in ExecutionIds : SchedulerWake(id)
    \/ \E id \in ExecutionIds, n \in NameSet, ok \in BOOLEAN :
          ToolCallReturns(id, n, "step", ok)
    \/ \E mcp \in McpNames : AddMcpClient(mcp)

InitX == InitReplace /\ InitBreakerVars /\ InitPoolVars /\ InitDiscoveryVars
            /\ InitClientVars /\ InitStdioVars
SpecReplace == InitX /\ [][NextReplace]_vars

InitC == InitClient /\ InitBreaker /\ InitPoolVars /\ InitRegistry
            /\ InitDiscoveryVars /\ InitStdioVars
SpecClient == InitC /\ [][NextClient]_vars

InitS == InitStdioVars /\ InitClientVars /\ InitBreakerVars /\ InitPoolVars
            /\ InitRegistry /\ InitDiscoveryVars
\* one stdio connection
SpecStdio == InitS /\ [][NextStdio]_vars

\* the client of a service with the step attempts of the engine that target
\* it, the other callTool calls (compensations, direct calls), and reset()
\* of its breaker
NextStepCalls ==
    \/ NextClient
    \/ ExecuteStepCall
    \/ StepTimeout
    \/ CBReset

SpecStepCalls == InitC /\ [][NextStepCalls]_vars

\* ------------------------------------------------------------------------
\* Properties of the CircuitBreaker
\* ------------------------------------------------------------------------
IsExecuteStep == cb'.metrics.totalRequests = cb.metrics.totalRequests + 1
IsFailureStep == cb'.metrics.totalFailures = cb.metrics.totalFailures + 1
IsSuccessStep == cb'.metrics.totalSuccesses = cb.metrics.totalSuccesses + 1
Threshold == cb.options.failureThreshold
OpenBefore == cb.state = OPEN /\ cb.nextAttempt # NoTime /\ now < cb.nextAttempt
RejectedUntouched ==
    /\ cbLast'.ev = "reject"
    /\ cbInflight' = cbInflight

\* C7 as stated: the kth consecutive failing call (k = failureThreshold) opens
\* the breaker with nextAttempt = now + resetTimeout, and the call issued next,
\* before nextAttempt, is rejected without fn being invoked.
C7_KthFailureOpens ==
    [][ /\ (IsFailureStep /\ cbHist'.streak = Threshold)
            => (cb'.state = OPEN /\ cb'.nextAttempt = now + cb.options.resetTimeout)
        /\ (IsExecuteStep /\ cbLast.ev = "failure" /\ cbHist.streak >= Threshold
                /\ OpenBefore)
            => RejectedUntouched ]_vars

\* C7 amended: the same, for k consecutive failures that fall into one
\* monitoring window (no monitoring tick between the first and the kth).
C7_KthFailureInWindowOpens ==
    [][ /\ (IsFailureStep /\ cbHist'.streak = Threshold /\ ~cbHist'.ticked)
            => (cb'.state = OPEN /\ cb'.nextAttempt = now + cb.options.resetTimeout)
        /\ (IsExecuteStep /\ cbLast.ev = "failure" /\ cbHist.streak >= Threshold
                /\ OpenBefore)
            => RejectedUntouched ]_vars

C7_Witness ==
    /\ Threshold = 2
    /\ cbHist.streak = 2 /\ ~cbHist.ticked
    /\ cbLast.ev = "reject"
    /\ cb.state = OPEN

\* C8: while OPEN and now < nextAttempt, execute(fn) fails with CircuitOpen,
\* does not invoke fn and changes nothing but metrics.totalRequests.
C8_OpenRejectsUnchanged ==
    [][ (IsExecuteStep /\ OpenBefore)
            => /\ RejectedUntouched
               /\ cb' = [cb EXCEPT !.metrics.totalRequests = @ + 1] ]_vars

C8_Witness ==
    /\ cbLast.ev = "reject"
    /\ cb.state = OPEN /\ cb.nextAttempt # NoTime /\ now < cb.nextAttempt
    /\ cb.metrics.totalRequests >= 2

\* C9: a probe that fails while the breaker is HALF_OPEN returns it to OPEN
\* with nextAttempt = now + resetTimeout.
C9_FailedProbeReopens ==
    [][ (IsFailureStep /\ cb.state = HALF_OPEN /\ cbLast'.probe)
            => (cb'.state = OPEN /\ cb'.nextAttempt = now + cb.options.resetTimeout) ]_vars

\* C10 as stated: the first execute(fn) at or after nextAttempt moves an OPEN
\* breaker to HALF_OPEN and invokes fn as a probe; when that probe succeeds
\* the breaker is CLOSED with failures = 0.
C10_ProbeSuccessCloses ==
    [][ /\ (IsExecuteStep /\ cb.state = OPEN /\ cb.nextAttempt # NoTime /\ ~(now < cb.nextAttempt))
            => (cb'.state = HALF_OPEN /\ cbLast' = [ev |-> "admit", probe |-> TRUE]
                /\ Cardinality(cbInflight') = Cardinality(cbInflight) + 1)
        /\ (IsSuccessStep /\ cbLast'.probe)
            => (cb'.state = CLOSED /\ cb'.failures = 0) ]_vars

\* C10 amended: ...; when that probe succeeds while the breaker is still
\* HALF_OPEN, the breaker is CLOSED with failures = 0.
C10_ProbeSuccessInHalfOpenCloses ==
    [][ /\ (IsExecuteStep /\ cb.state = OPEN /\ cb.nextAttempt # NoTime /\ ~(now < cb.nextAttempt))
            => (cb'.state = HALF_OPEN /\ cbLast' = [ev |-> "admit", probe |-> TRUE]
                /\ Cardinality(cbInflight') = Cardinality(cbInflight) + 1)
        /\ (IsSuccessStep /\ cbLast'.probe /\ cb.state = HALF_OPEN)
            => (cb'.state = CLOSED /\ cb'.failures = 0) ]_vars

C10_Witness ==
    /\ cbLast = [ev |-> "success", probe |-> TRUE]
    /\ cb.state = CLOSED /\ cb.failures = 0
    /\ cb.metrics.totalFailures >= 1

\* C34: a failure opens a CLOSED breaker only when it is the last of at
\* least failureThreshold failures in a row, with no success between them
C34_OnlyConsecutiveFailuresOpen ==
    [][(cb.state = CLOSED /\ cb'.state = OPEN /\ cbLast'.ev = "failure")
          => cbHist'.streak >= cb.options.failureThreshold]_vars

\* C39: a success closes a HALF_OPEN breaker only when it is the success of
\* a call that was admitted at or after nextAttempt, never the success of a
\* call admitted while the breaker was CLOSED
C39_OnlyProbeSuccessCloses ==
    [][(cb.state = HALF_OPEN /\ cb'.state = CLOSED /\ cbLast'.ev = "success")
          => \A c \in cbInflight \ cbInflight' : c.was # CLOSED]_vars

\* ------------------------------------------------------------------------
\* Properties of the ConnectionPool
\* ------------------------------------------------------------------------
\* C6: the pool never owns more than maxSize connections.
C6_PoolWithinMaxSize ==
    Cardinality(pool.connections) <= pool.options.maxSize

\* ------------------------------------------------------------------------
\* Properties of workflow registration
\* ------------------------------------------------------------------------
\* a dependsOn name that is no step of the workflow
HasMissingDependency(w) ==
    \E n \in DOMAIN w.steps : ~(w.steps[n].dependsOn \subseteq DOMAIN w.steps)

\* the steps reachable from n along dependsOn in at most k hops
RECURSIVE Reach(_, _, _)
Reach(w, from, k) ==
    IF k = 0 THEN from
    ELSE Reach(w, from \cup UNION {w.steps[n].dependsOn \cap DOMAIN w.steps : n \in from},
               k - 1)

HasDependencyCycle(w) ==
    \E n \in DOMAIN w.steps :
        n \in Reach(w, w.steps[n].dependsOn \cap DOMAIN w.steps, Len(StepNames))

\* C5: registerWorkflow rejects a definition iff a dependsOn name is no
\* sibling step or the dependsOn graph has a cycle; an accepted definition is
\* the registered one, a rejected one leaves the registered workflows as
\* they were.
C5_RejectsExactlyInvalid ==
    [][ engLast'.op = "register" =>
          /\ (engLast'.result = "error")
                <=> (HasMissingDependency(engLast'.workflow)
                        \/ HasDependencyCycle(engLast'.workflow))
          /\ engLast'.result = "error" => workflows' = workflows
          /\ engLast'.result = "ok"
                => /\ DOMAIN workflows' = DOMAIN workflows \cup {engLast'.workflow.name}
                   /\ workflows'[engLast'.workflow.name] = engLast'.workflow
        ]_vars

\* with the diamond (C depends on A and B, B on A) registered, a cyclic
\* definition was rejected and the diamond is still the registered workflow
C5_Witness ==
    /\ engLast.op = "register" /\ engLast.result = "error"
    /\ HasDependencyCycle(engLast.workflow)
    /\ ~HasMissingDependency(engLast.workflow)
    /\ workflows = "wf" :> Workflow("wf", Diamond, "reverse_order")

\* ------------------------------------------------------------------------
\* Properties of workflow execution
\* ------------------------------------------------------------------------
\* all executions, active or in the history
Executions == activeExecutions @@ executionHistory

\* every step of the execution is COMPLETED by its first attempt, its result
\* recorded, and no call of the execution failed
AllStepsSucceeded(context) ==
    /\ DOMAIN context.steps # {}
    /\ \A n \in DOMAIN context.steps :
          /\ context.steps[n].state = COMPLETED
          /\ context.steps[n].result = "ok"
          /\ context.steps[n].error = NULL
          /\ context.steps[n].attempt = 1

\* C1: when every call of an execution has succeeded and every step is
\* COMPLETED, the scheduler's next turn ends the execution by itself: it goes
\* to the history in state COMPLETED and no step is launched again.
C1_SucceedingWorkflowCompletes ==
    [][ \A id \in ExecutionIds :
          ( /\ id \in DOMAIN activeExecutions
            /\ activeExecutions[id].state = RUNNING
            /\ activeExecutions[id].timeout
            /\ AllStepsSucceeded(activeExecutions[id])
            /\ SchedulerWake(id) )
          => /\ id \in DOMAIN executionHistory'
             /\ executionHistory'[id].state = COMPLETED
             /\ AllStepsSucceeded(executionHistory'[id])
      ]_vars

\* C2: no attempt of a step begins while a step of its dependsOn is not
\* COMPLETED in the same execution context.
C2_NoAttemptBeforeDependencies == earlyStarts = {}

\* C3: a step whose tool calls failed, none having succeeded, is attempted at
\* most retries + 1 times, and is FAILED or SKIPPED with exactly retries + 1
\* attempts made.
C3_RetryBound ==
    \A id \in DOMAIN Executions : \A n \in DOMAIN Executions[id].steps :
        LET step == Executions[id].steps[n]
        IN step.result = NULL /\ step.error = "tool error"
              => /\ step.attempt <= step.retries + 1
                 /\ step.state \in {FAILED, SKIPPED} => step.attempt = step.retries + 1

\* executeWorkflow was called in this step for a registered workflow
IsExecuteCall == engLast'.op = "execute" /\ engLast'.result # "Workflow not found"

\* C4: there are never more than maxConcurrentWorkflows active executions;
\* an executeWorkflow call made with that many active is rejected and leaves
\* the executions, the history and the counters as they were; a call made
\* with fewer active, be it after an execution finished, creates a context.
C4_AdmissionLimit ==
    /\ [](Cardinality(DOMAIN activeExecutions) <= options.maxConcurrentWorkflows)
    /\ [][ IsExecuteCall =>
             IF Cardinality(DOMAIN activeExecutions) >= options.maxConcurrentWorkflows
             THEN /\ engLast'.result = "Maximum concurrent workflows reached"
                  /\ UNCHANGED <<activeExecutions, executionHistory, metrics, created>>
             ELSE /\ engLast'.result = "started"
                  /\ created' = created + 1
                  /\ DOMAIN Executions' = DOMAIN Executions \cup {created'}
                  /\ metrics'.totalWorkflows = metrics.totalWorkflows + 1
         ]_vars

\* an execution finished, a further one was admitted in its place, and the
\* call after that was rejected with maxConcurrentWorkflows executions active
C4_Witness ==
    /\ engLast.op = "execute"
    /\ engLast.result = "Maximum concurrent workflows reached"
    /\ Cardinality(DOMAIN activeExecutions) = options.maxConcurrentWorkflows
    /\ executionHistory # <<>>
    /\ \E id \in DOMAIN activeExecutions : \A h \in DOMAIN executionHistory : id > h

\* the errors of an execution that failed by itself
FailureErrors ==
    {"Not all critical steps completed successfully", "Workflow deadlock"}

\* the steps of the context that are COMPLETED and define a compensation
Compensable(context) ==
    {n \in DOMAIN context.steps :
        /\ context.workflow.steps[n].compensation # NULL
        /\ context.steps[n].state = COMPLETED}

\* the execution id after this step, active or in the history
ExecutionAfter(id) == (activeExecutions' @@ executionHistory')[id]

\* in this step the running execution id leaves its scheduler loop and fails
FailsNow(id) ==
    /\ id \in DOMAIN activeExecutions
    /\ activeExecutions[id].state = RUNNING
    /\ ExecutionAfter(id).error \in FailureErrors

\* C14: in an execution that failed, without any cancellation, and went to
\* the history, the workflow is COMPENSATED and no step that defines a
\* compensation is left COMPLETED: its compensation was started
C14_FailedWorkflowCompensates ==
    \A id \in DOMAIN executionHistory :
        LET context == executionHistory[id]
        IN (metrics.cancelledWorkflows = 0 /\ context.error \in FailureErrors) =>
              /\ context.state = COMPENSATED
              /\ Compensable(context) = {}

\* C15: when an execution fails while the clients of its completed steps
\* with a compensation exist, the first compensation called, and the only
\* one called in that step, is the one of the step that completed last
C15_ReverseCompletionOrder ==
    [][\A id \in DOMAIN activeExecutions :
          LET context == activeExecutions[id]
              expected ==
                  Reverse(SelectSeq(context.completedOrder,
                                    LAMBDA n : n \in Compensable(context)))
          IN (/\ FailsNow(id)
              /\ expected # <<>>
              /\ \A n \in Compensable(context) :
                    context.workflow.steps[n].mcp \in DOMAIN mcpClients)
             => ExecutionAfter(id).invoked = <<Head(expected)>>]_vars

CancelErrors == {"cancelled", "timeout"}

\* C17: while a step of a cancelled execution is still RUNNING, the workflow
\* is not COMPENSATED and no compensation action was called
C17_NoCompensationWhileInFlight ==
    \A id \in DOMAIN activeExecutions :
        LET context == activeExecutions[id]
        IN (/\ context.error \in CancelErrors
            /\ \E n \in DOMAIN context.steps : context.steps[n].state = RUNNING)
           => /\ context.state # COMPENSATED
              /\ context.invoked = <<>>

\* C18: an execution that carries the error of a cancellation is neither
\* RUNNING nor COMPLETED, and it returned no result to the caller of
\* executeWorkflow
C18_CancelledNeverCompletes ==
    \A id \in DOMAIN Executions :
        Executions[id].error \in CancelErrors =>
            /\ Executions[id].state \notin {RUNNING, COMPLETED}
            /\ Executions[id].result = NULL

\* the steps of the context that are PENDING
PendingSteps(context) ==
    {n \in DOMAIN context.steps : context.steps[n].state = PENDING}

\* no step of the running execution is in flight, some step is PENDING and
\* no PENDING step can be launched
IsBlocked(context) ==
    /\ context.state = RUNNING
    /\ context.runningSteps = {}
    /\ \A n \in DOMAIN context.steps : context.steps[n].state # RUNNING
    /\ PendingSteps(context) # {}
    /\ \A n \in PendingSteps(context) :
          ~CanExecute(context.workflow.steps[n], context)

\* the workflow has a step whose condition is false and on which another
\* step depends
HasFalseGate(w) ==
    \E a, b \in DOMAIN w.steps :
        w.steps[a].condition = "false" /\ a \in w.steps[b].dependsOn

\* C19: when the scheduler looks at an execution of a workflow with a step
\* whose condition is false and on which another step depends, and no step
\* is running and no PENDING step can be launched, the execution fails with
\* the deadlock error, which names the PENDING steps
C19_DeadlockDetected ==
    [][\A id \in DOMAIN activeExecutions :
          (/\ HasFalseGate(activeExecutions[id].workflow)
           /\ IsBlocked(activeExecutions[id])
           /\ SchedulerWake(id))
          => /\ ExecutionAfter(id).error = "Workflow deadlock"
             /\ ExecutionAfter(id).blocked = PendingSteps(activeExecutions[id])]_vars

\* an execution failed at once with the deadlock error naming both steps
DeadlockAtStart ==
    \E id \in DOMAIN executionHistory :
        /\ executionHistory[id].error = "Workflow deadlock"
        /\ executionHistory[id].blocked = {"A", "B"}
        /\ executionHistory[id].state = COMPENSATED

\* in this step the execution id, not cancelled, goes to the history after
\* its scheduler loop ended without the deadlock error
EndsNow(id) ==
    /\ id \in DOMAIN executionHistory' \ DOMAIN executionHistory
    /\ id \in DOMAIN activeExecutions => activeExecutions[id].state = RUNNING
    /\ executionHistory'[id].error # "Workflow deadlock"

C21_HistoryImmutable ==
    [][\A id \in DOMAIN executionHistory :
          /\ id \in DOMAIN executionHistory'
          /\ id \notin DOMAIN activeExecutions'
          /\ executionHistory'[id].state = executionHistory[id].state
          /\ executionHistory'[id].result = executionHistory[id].result
          /\ executionHistory'[id].steps = executionHistory[id].steps]_vars

\* an execution that was cancelled after it attempted a step is in the
\* history, and a later execution has completed a step since
C21_Witness ==
    \E h \in DOMAIN executionHistory, a \in DOMAIN activeExecutions :
        /\ a > h
        /\ executionHistory[h].error \in CancelErrors
        /\ \E n \in DOMAIN executionHistory[h].steps :
              executionHistory[h].steps[n].attempt > 0
        /\ \E n \in DOMAIN activeExecutions[a].steps :
              activeExecutions[a].steps[n].state = COMPLETED

\* registerWorkflow ran in this step
IsRegisterStep == registrations' # registrations

\* C22: a successful registration leaves exactly one entry for the name, the
\* definition just registered; a failed one and every other step leave the
\* registered workflows alone; and an execution that starts runs the steps
\* of the workflow registered under the name at that moment
C22_ReregisterReplaces ==
    [][/\ (IsRegisterStep /\ engLast'.result = "ok")
          => /\ DOMAIN workflows' = DOMAIN workflows \cup {engLast'.workflow.name}
             /\ workflows'[engLast'.workflow.name] = engLast'.workflow
       /\ (~IsRegisterStep \/ engLast'.result # "ok") => workflows' = workflows
       /\ created' # created
          => /\ ExecutionAfter(created').workflow = workflows["wf"]
             /\ DOMAIN ExecutionAfter(created').steps = DOMAIN workflows["wf"].steps
             /\ \A n \in DOMAIN workflows["wf"].steps :
                   /\ ExecutionAfter(created').steps[n].dependsOn
                         = workflows["wf"].steps[n].dependsOn
                   /\ ExecutionAfter(created').steps[n].retries
                         = workflows["wf"].steps[n].retries]_vars

\* after the definition of 'wf' was replaced by a different one, the first
\* execution still runs the old definition and the second one the new
C22_Witness ==
    /\ registrations = 1
    /\ 1 \in DOMAIN Executions /\ 2 \in DOMAIN Executions
    /\ Executions[2].workflow = workflows["wf"]
    /\ Executions[1].workflow # workflows["wf"]
    /\ Executions[2].workflow.stepOrder # <<>>
    /\ \E n \in DOMAIN Executions[2].steps : Executions[2].steps[n].attempt > 0

\* the steps in flight over all active executions
RECURSIVE StepsInFlight(_)
StepsInFlight(ids) ==
    IF ids = {} THEN 0
    ELSE LET id == CHOOSE i \in ids : TRUE
         IN Cardinality(activeExecutions[id].runningSteps)
              + StepsInFlight(ids \ {id})

\* the executable steps of an execution that are not in flight
Startable(context) ==
    {n \in DOMAIN context.steps :
        /\ n \notin context.runningSteps
        /\ \E i \in DOMAIN GetExecutableSteps(context.workflow, context) :
              GetExecutableSteps(context.workflow, context)[i] = n}

\* C24 as amended: the steps in flight of one execution are never more than
\* maxConcurrentSteps, for every execution on its own
C24_StepBudgetPerExecution ==
    /\ \A id \in DOMAIN activeExecutions :
          Cardinality(activeExecutions[id].runningSteps) <= options.maxConcurrentSteps
    /\ \A id \in DOMAIN executionHistory :
          Cardinality(executionHistory[id].runningSteps) <= options.maxConcurrentSteps

\* two active executions each have maxConcurrentSteps steps in flight, and
\* one of them holds back a step that could start
C24_Witness ==
    \E id, other \in DOMAIN activeExecutions :
        /\ id # other
        /\ Cardinality(activeExecutions[id].runningSteps) = options.maxConcurrentSteps
        /\ Cardinality(activeExecutions[other].runningSteps) = options.maxConcurrentSteps
        /\ activeExecutions[id].state = RUNNING
        /\ Startable(activeExecutions[id]) # {}

\* C24: the steps in flight over all active executions of the engine are
\* never more than maxConcurrentSteps
C24_GlobalStepBudget ==
    StepsInFlight(DOMAIN activeExecutions) <= options.maxConcurrentSteps

\* C25: a step that is COMPLETED, FAILED or SKIPPED keeps that state and
\* begins no further attempt, and a step begins at most retries + 1 attempts
C25_StepStateMovesForward ==
    [][\A id \in DOMAIN activeExecutions \cup DOMAIN executionHistory :
          LET before == (activeExecutions @@ executionHistory)[id]
              after == ExecutionAfter(id)
          IN \A n \in DOMAIN before.steps :
                /\ before.steps[n].state \in {COMPLETED, FAILED, SKIPPED}
                      => /\ after.steps[n].state = before.steps[n].state
                         /\ after.steps[n].attempt = before.steps[n].attempt
                /\ after.steps[n].attempt <= before.workflow.steps[n].retries + 1]_vars

\* in this step a turn of the scheduler loop runs for execution id: the
\* first one, in executeWorkflow, or a later one after a sleep
TurnRuns(id) ==
    \/ created' # created /\ id = created'
    \/ /\ id \in DOMAIN activeExecutions
       /\ activeExecutions[id].pc = "sched"
       /\ activeExecutions[id].state = RUNNING
       /\ SchedulerWake(id)

\* the execution id as the turn finds it
ExecutionBefore(id) ==
    IF id \in DOMAIN activeExecutions THEN activeExecutions[id]
    ELSE WorkflowContext(id, ExecutionAfter(id).workflow)

\* C28: a turn of the scheduler that finds a step PENDING with all its
\* dependencies COMPLETED and a condition that is false, or that cannot be
\* evaluated, leaves the step SKIPPED
C28_FalseConditionSkips ==
    [][\A id \in DOMAIN activeExecutions' \cup DOMAIN executionHistory' :
          TurnRuns(id) =>
             LET before == ExecutionBefore(id)
             IN \A n \in DOMAIN before.steps :
                   ( /\ before.steps[n].state = PENDING
                     /\ \A dep \in before.workflow.steps[n].dependsOn :
                           before.steps[dep].state = COMPLETED
                     /\ before.workflow.steps[n].condition \notin {NULL, "true"} )
                      => ExecutionAfter(id).steps[n].state = SKIPPED]_vars

\* the Workflow objects the engine holds: the registered ones and the ones
\* the executions refer to
DefinitionsHeld ==
    {workflows[name] : name \in DOMAIN workflows}
       \cup {activeExecutions[id].workflow : id \in DOMAIN activeExecutions}
       \cup {executionHistory[id].workflow : id \in DOMAIN executionHistory}

\* C35: the step objects of a workflow definition keep the runtime fields
\* they were constructed with, whatever the executions of the workflow do
C35_DefinitionUntouched ==
    \A w \in DefinitionsHeld : \A n \in DOMAIN w.steps :
        /\ w.steps[n].state = PENDING
        /\ w.steps[n].attempt = 0
        /\ w.steps[n].result = NULL
        /\ w.steps[n].error = NULL

\* an execution has finished with a step attempted and failed, a later
\* execution of the same workflow has a step in flight
C35_Witness ==
    \E h \in DOMAIN executionHistory, a \in DOMAIN activeExecutions :
        /\ a > h
        /\ executionHistory[h].workflow = activeExecutions[a].workflow
        /\ \E n \in DOMAIN executionHistory[h].steps :
              executionHistory[h].steps[n].state = FAILED
        /\ activeExecutions[a].runningSteps # {}

\* C36: metrics.activeWorkflows is the number of active executions, no
\* execution is both active and in the history, every execution started is
\* active or in the history, and when none is active every execution
\* started is counted once as completed or failed; a cancellation is
\* counted in cancelledWorkflows besides
C36_MetricsMatchMaps ==
    /\ metrics.activeWorkflows = Cardinality(DOMAIN activeExecutions)
    /\ DOMAIN activeExecutions \cap DOMAIN executionHistory = {}
    /\ Cardinality(DOMAIN activeExecutions \cup DOMAIN executionHistory)
          = metrics.totalWorkflows
    /\ activeExecutions = <<>>
          => metrics.completedWorkflows + metrics.failedWorkflows
                = metrics.totalWorkflows
    /\ (\E id \in DOMAIN executionHistory :
            executionHistory[id].error \in CancelErrors)
          => metrics.cancelledWorkflows > 0

\* two executions have finished, one is counted as completed and one as
\* failed, and one cancellation was counted
C36_Witness ==
    /\ activeExecutions = <<>>
    /\ metrics.totalWorkflows = 2
    /\ metrics.completedWorkflows = 1
    /\ metrics.failedWorkflows = 1
    /\ metrics.cancelledWorkflows = 1

\* C40: in every execution the compensation action of a step is called at
\* most once, however often compensateWorkflow runs for the execution
C40_CompensationAtMostOnce ==
    \A id \in DOMAIN Executions :
        \A i, j \in DOMAIN Executions[id].invoked :
            Executions[id].invoked[i] = Executions[id].invoked[j] => i = j

\* the only execution was cancelled with a compensable step COMPLETED and
\* then failed: compensateWorkflow ran for it from cancelWorkflow and again
\* from the catch block of executeWorkflowContext
C40_Witness ==
    /\ created = 1
    /\ metrics.cancelledWorkflows = 1
    /\ metrics.failedWorkflows = 1
    /\ 1 \in DOMAIN executionHistory
    /\ executionHistory[1].state = COMPENSATED
    /\ executionHistory[1].error \in FailureErrors
    /\ \E n \in DOMAIN executionHistory[1].steps :
          /\ executionHistory[1].workflow.steps[n].compensation # NULL
          /\ executionHistory[1].completedOrder # <<>>

\* no compensation action is called in any execution
NoCompensationInvoked ==
    \A id \in DOMAIN Executions : Executions[id].invoked = <<>>

\* ------------------------------------------------------------------------
\* Properties of the ConnectionPool: waiters, destroy, closed connections
\* ------------------------------------------------------------------------
\* callers are numbered in the order of their acquire() calls: the waiter
\* that has waited longest is the waiting caller with the least number
Waiters == {c \in DOMAIN poolCallers : poolCallers[c].at = "waits"}
LongestWaiter == CHOOSE c \in Waiters : \A d \in Waiters : c <= d

\* in this step caller c releases a connection the pool owns
Releases(c) ==
    /\ c \in DOMAIN poolCallers
    /\ poolCallers[c].at = "holds"
    /\ poolCallers'[c].at = "done"
    /\ poolCallers[c].conn \in pool.connections

InQueue(p, c) == \E i \in DOMAIN p.pendingAcquires : p.pendingAcquires[i] = c

\* C26: a connection released while acquire() calls wait goes to the caller
\* that has waited longest and is not marked idle; a waiter whose timer
\* fires leaves the queue, and a timed out caller never gets a connection
C26_FifoHandOff ==
    [][/\ \A c \in DOMAIN poolCallers :
            (Releases(c) /\ Waiters # {})
               => /\ poolCallers'[LongestWaiter] =
                        [at |-> "holds", conn |-> poolCallers[c].conn]
                  /\ ~InQueue(pool', LongestWaiter)
                  /\ \A d \in Waiters \ {LongestWaiter} :
                        poolCallers'[d].at = "waits" /\ InQueue(pool', d)
                  /\ pool'.availableConnections = <<>>
       /\ \A c \in DOMAIN poolCallers :
            /\ (poolCallers[c].at = "waits" /\ poolCallers'[c].at = "timeout")
                  => ~InQueue(pool', c)
            /\ poolCallers[c].at = "timeout"
                  => poolCallers'[c] = poolCallers[c] /\ ~InQueue(pool', c)]_vars

\* the pool is full, a connection was handed to a waiter while a caller
\* that queued later still waits, and a caller that timed out earlier holds
\* nothing
C26_Witness ==
    /\ poolLast.ev = "handed"
    /\ Cardinality(pool.connections) = pool.options.maxSize
    /\ \E t, h, w \in DOMAIN poolCallers :
          /\ poolCallers[t].at = "timeout"
          /\ poolCallers[h] = [at |-> "holds", conn |-> poolLast.conn]
          /\ poolCallers[w].at = "waits"
          /\ h < w

\* in this step destroy() runs
Destroys == poolLast'.ev = "pool_destroyed"

\* C27: destroy() destroys every connection of the pool, idle or in use, and
\* rejects every waiting acquire(); when it returns the pool owns no
\* connection, has no idle connection and no waiter; a rejected waiter gets
\* nothing later; and the release of a connection the pool no longer owns
\* changes nothing in the pool
C27_DestroyEmptiesPool ==
    [][/\ Destroys
            => /\ pool'.connections = {}
               /\ pool'.availableConnections = <<>>
               /\ pool'.pendingAcquires = <<>>
               /\ pool.connections \subseteq closed'
               /\ pool'.totalDestroyed =
                     pool.totalDestroyed + Cardinality(pool.connections)
               /\ \A c \in Waiters : poolCallers'[c].at = "destroyed"
       /\ \A c \in DOMAIN poolCallers :
            /\ poolCallers[c].at = "destroyed" => poolCallers'[c] = poolCallers[c]
            /\ ( /\ poolCallers[c].at = "holds"
                 /\ poolCallers'[c].at = "done"
                 /\ poolCallers[c].conn \in closed
                 /\ poolCallers[c].conn \notin pool.connections )
                  => pool' = pool]_vars

\* destroy() ran on a full pool with a connection in use and a waiter: the
\* waiter was rejected, the holder released its connection afterwards, and
\* the pool is empty
C27_Witness ==
    /\ poolLast.ev = "ignored"
    /\ poolLast.conn \in closed
    /\ pool.connections = {}
    /\ pool.availableConnections = <<>>
    /\ pool.totalDestroyed > 0
    /\ \E c \in DOMAIN poolCallers : poolCallers[c].at = "destroyed"

\* C30: a connection whose process has exited is never again returned by
\* acquire(), neither from the idle connections nor by a hand-off to a
\* waiter
C30_ClosedConnectionDropped ==
    [][\A c \in DOMAIN poolCallers' :
          ( /\ poolCallers'[c].at = "holds"
            /\ c \in DOMAIN poolCallers => poolCallers[c].at # "holds" )
             => poolCallers'[c].conn \notin closed]_vars

\* ------------------------------------------------------------------------
\* Properties of the health checks of the discovery service
\* ------------------------------------------------------------------------
\* C33: mcp_unhealthy is emitted for a name in the cache only by a health
\* check that finds the entry not unhealthy and leaves it unhealthy
C33_UnhealthyOnTransitionOnly ==
    [][( /\ discLast'.op = "health"
         /\ discLast'.mcp_unhealthy
         /\ discLast'.name \in DOMAIN mcpCache )
          => /\ health.healthy[discLast'.name] # "false"
             /\ health'.healthy[discLast'.name] = "false"]_vars

\* ------------------------------------------------------------------------
\* Properties of the MCPClient
\* ------------------------------------------------------------------------
\* in this step a send of call c failed
SendFailed(c) ==
    /\ c \in DOMAIN calls
    /\ calls[c].pc = "send"
    /\ calls'[c].pc \in {"sleep", "done"}
    /\ calls'[c].result # "ok"

\* C23: a failed attempt of a call is followed by another attempt only when
\* the error is of kind NetworkUnavailable, Http5xx or Timeout and fewer than
\* maxRetries retries were made, and no call hands more than maxRetries + 1
\* messages to the transport
C23_RetryOnlyRetryableKinds ==
    [][\A c \in DOMAIN calls :
          /\ (SendFailed(c) /\ calls'[c].pc = "sleep")
                => /\ calls'[c].error.kind \in {"NetworkUnavailable", "Http5xx", "Timeout"}
                   /\ calls[c].attempt < client.options.maxRetries
          /\ calls'[c].sent <= client.options.maxRetries + 1]_vars

\* C29: every failed attempt of a call is recorded as one failure by the
\* breaker, and an attempt of a call in progress is handed to the transport
\* only when the breaker admits calls at that moment
C29_BreakerSeesEveryAttempt ==
    [][\A c \in DOMAIN calls :
          /\ SendFailed(c)
                => cb'.metrics.totalFailures = cb.metrics.totalFailures + 1
          /\ calls'[c].sent > calls[c].sent => ~Rejects(cb, now)]_vars

\* C29, its second part alone: no attempt of a call in progress reaches the
\* transport while the breaker is OPEN before nextAttempt
NoAttemptWhileOpen ==
    [][\A c \in DOMAIN calls :
          calls'[c].sent > calls[c].sent => ~Rejects(cb, now)]_vars

\* in this step the engine attempts a step that targets the service
IsStepCall == engLast'.op = "step" /\ engLast'.n = StepCalls + 1

\* C37: a step attempted while the breaker of its service is OPEN fails with
\* 'MCP not healthy' and calls nothing, also at or after nextAttempt; a step
\* attempt never takes the breaker out of OPEN, which ends only by a call of
\* callTool that is no step attempt or by reset()
C37_OpenBreakerFailsSteps ==
    [][/\ (IsStepCall /\ cb.state = OPEN)
            => /\ engLast'.result = "MCP not healthy"
               /\ calls' = calls
               /\ cb' = cb
       /\ (cb.state = OPEN /\ cb'.state # OPEN)
            => /\ ~IsStepCall
               /\ \/ Len(calls') = Len(calls) + 1 /\ cb'.state = HALF_OPEN
                  \/ cbLast'.ev = "reset" /\ cb'.state = CLOSED]_vars

\* a step was attempted at or after nextAttempt of the OPEN breaker and
\* failed with 'MCP not healthy'; the breaker is still OPEN
C37_Witness ==
    /\ engLast.op = "step"
    /\ engLast.result = "MCP not healthy"
    /\ cb.state = OPEN
    /\ cb.metrics.totalFailures > 0
    /\ ~Rejects(cb, now)

\* C31: every request sent on a stdio connection is settled exactly once, by
\* the first of its response line, its timeout and the exit of the process:
\* a request that is no longer pending and whose response is not being
\* handled has been settled, and no request is settled twice
C31_SettledExactlyOnce ==
    \A id \in DOMAIN stdio.settled :
        /\ Len(stdio.settled[id]) <= 1
        /\ \/ id \in stdio.pendingRequests
           \/ \E h \in stdio.handling : h.id = id
           \/ Len(stdio.settled[id]) = 1

\* C32: of the calls of callTool that the attempts of a step started, at
\* most one is outstanding at any moment
C32_OneOutstandingCallPerStep == Cardinality(StepOutstanding) <= 1

\* ------------------------------------------------------------------------
\* Properties of the discovery service
\* ------------------------------------------------------------------------
\* loadRegistry() ran in this step
IsLoadStep == discMetrics' # discMetrics

\* an entry of a registry file that is no valid descriptor: no object, a
\* name or version that is no string, no endpoint, capabilities or tools
\* that are no list
InvalidEntry(e) ==
    \/ e.type # "object"
    \/ e.name \notin RegistryNameSet \cup {NULL}
    \/ e.version \notin {"1.0.0", "2.0.0", NULL}
    \/ e.endpoints \notin {"object", "null entry"}
    \/ e.capabilities # "array"
    \/ e.tools # "array"

\* the file cannot be read or parsed, or an entry of it is invalid
FileFails(file) ==
    file.kind # "json" \/ \E n \in DOMAIN file.mcps : InvalidEntry(file.mcps[n])

C12_AuxiliaryEntriesPersist ==
    [][ IsLoadStep /\ discLast'.result = "ok" =>
          \A n \in DOMAIN mcpCache :
              mcpCache[n].source # "file" => n \in DOMAIN mcpCache'
      ]_vars

\* C13: after a successful reload mcps_added names exactly the names of the
\* new file that the previous one did not have, mcps_removed exactly the
\* names of the previous file that the new one does not have; the map holds
\* the descriptor of every added name and the engine a usable client for it.
C13_ReloadAddsNames ==
    [][ IsLoadStep /\ discLast'.result = "ok" =>
          LET previous == IF registry.loaded THEN DOMAIN registry.mcps ELSE {}
              current == DOMAIN discLast'.file.mcps
          IN /\ discLast'.events.added = current \ previous
             /\ discLast'.events.removed = previous \ current
             /\ \A x \in current \ previous :
                  /\ x \in DOMAIN mcpCache'
                  /\ mcpCache'[x].name = x
                  /\ mcpCache'[x].source = "file"
                  /\ discLast'.file.mcps[x].version # NULL
                        => mcpCache'[x].version = discLast'.file.mcps[x].version
                  /\ ClientAvailable(mcpClients', x)
      ]_vars

\* a reload added m2 and kept m1: m2 is in the map and the engine has a
\* client for it
C13_Witness ==
    /\ discLast.op = "load" /\ discLast.result = "ok"
    /\ discLast.events.added = {"m2"}
    /\ discLast.events.updated = {"m1"}
    /\ "m2" \in DOMAIN mcpCache
    /\ ClientAvailable(mcpClients, "m2")

\* C38: the engine holds a client for every name the discovery service holds
\* a descriptor for, whichever source the descriptor came from, once the
\* listeners of the engine have run
C38_RegisteredServiceHasClient ==
    \A name \in DOMAIN mcpCache : name \in DOMAIN mcpClients

====
